---------------------------- MODULE Spec2Model ----------------------------
(***************************************************************************)
(* A model of github.com/growler/go-pandoc: the streaming decoder of the   *)
(* Pandoc JSON AST (ReadFrom and its readers), the encoder (Doc.write) and  *)
(* the traversal engine (Filter / Query / walkList / walkChildren).         *)
(*                                                                         *)
(* The codec is modelled on lexemes: the input of the decoder and the       *)
(* output of the encoder are sequences of JSON lexemes.  A string lexeme    *)
(* carries the raw text between its quotes as a sequence of symbols, so     *)
(* that quoting and unquoting are conversions and not the identity.         *)
(***************************************************************************)
EXTENDS Integers, Sequences, FiniteSets, TLC

VARIABLES
    tc,       \* codec: description of the chosen input (how it was built)
    input,    \* codec: the lexemes handed to ReadFrom
    cpc,      \* codec: "start", "decoded", "written"
    dres,     \* codec: what ReadFrom returned: [st, v]
    output,   \* codec: the lexemes Doc.write produced
    wdoc,     \* traversal: index of the document in SampleDocs
    wfun,     \* traversal: the visiting function [P, R, sp]
    wpc,      \* traversal: "start", or the entry point that has run
    wret,     \* traversal: what the entry point returned: [v, err, log]
    mt,       \* Match: the arguments [T, m, e], T the type parameter of m
    mret,     \* Match: "none", or what Match did: "true", "false", "panic"
    sbuf,     \* scanner: the bytes of the input that follow an opening quote
    stok,     \* scanner: the token parseStr returned: [t, s] (t is "none" before)
    lin,      \* lexer: the bytes of the input the reader holds at the start
    lsc,      \* lexer: the scanner and its reader (see NewScanner)
    ltoks,    \* lexer: what next() has delivered so far, one record per call
    lpeek,    \* lexer: the tokens peek() reported since the last next()
    mm,       \* Meta: the metadata map *m, a sequence of entries [Key, Value]
    mset,     \* Meta: for every key, the value the last Set gave it ("nil" for none)
    mop,      \* Meta: the last call: [op, key, value, before], value what Get returned
    mn,       \* Meta: the number of calls made
    aheap,    \* Attr: the backing arrays of the slices, by name
    arecv,    \* Attr: the Attr of the caller: [Id, Classes, KVs], a slice is [arr, len]
    aview,    \* Attr: the Id, the classes and the pairs of arecv before the call
    aret,     \* Attr: the call made and the Attr it returned: [f, a]
    rop,      \* run: the call and its circumstances: [op, in, doc, trail, parse, at, capIn, capOut]
    rpc,      \* run: where LoadFrom or StoreTo stands
    rpipe,    \* run: the pipes of the tool: [sin, sinClosed, sout, soutClosed]
    rtool,    \* run: the tool: [pc, written]
    rcopy,    \* run: the goroutine of LoadFrom: [pc, left, err]
    rres      \* run: [ret, failed, parsed, sent]: what was returned, the I/O failures so far

vars == <<tc, input, cpc, dres, output, wdoc, wfun, wpc, wret, mt, mret,
          sbuf, stok, lin, lsc, ltoks, lpeek, mm, mset, mop, mn, aheap,
          arecv, aview, aret, rop, rpc, rpipe, rtool, rcopy, rres>>

(***************************************************************************)
(* Lexemes.  t is the kind, s the raw text of a string, n the value of a    *)
(* number.  "bad" is a byte no token starts with; "badstr" is a string      *)
(* literal that runs into an invalid escape (s is the raw text before it).  *)
(***************************************************************************)
P(k) == [t |-> k, s |-> <<>>, n |-> 0]
LBrace == P("{")
RBrace == P("}")
LBrack == P("[")
RBrack == P("]")
Comma == P(",")
Colon == P(":")
NullT == P("null")
TrueT == P("true")
FalseT == P("false")
BadT == P("bad")
S(raw) == [t |-> "str", s |-> raw, n |-> 0]
N(i) == [t |-> "num", s |-> <<>>, n |-> i]
BadStr(raw) == [t |-> "badstr", s |-> raw, n |-> 0]

\* a word of plain ASCII letters is one symbol
W(a) == <<a>>

(***************************************************************************)
(* scanner (scan.go), on lexemes: pos is the index of the next unread one   *)
(***************************************************************************)
\* scanner.peek: looks at the first byte only, so a string literal that
\* later turns out to be malformed is still announced as tokStr
peek(toks, pos) ==
    IF pos > Len(toks) THEN "EOF"
    ELSE LET k == toks[pos].t IN
         IF k = "bad" THEN "ERR"
         ELSE IF k = "badstr" THEN "str"
         ELSE k

\* scanner.next: the default case returns tokErr without advancing, parseStr
\* returns tokErr having consumed the literal up to the invalid escape
next(toks, pos) ==
    IF pos > Len(toks) THEN [tok |-> "EOF", pos |-> pos]
    ELSE LET k == toks[pos].t IN
         IF k = "bad" THEN [tok |-> "ERR", pos |-> pos]
         ELSE IF k = "badstr" THEN [tok |-> "ERR", pos |-> pos + 1]
         ELSE [tok |-> k, pos |-> pos + 1]

\* results of the readers: st is "ok", "error" (a non-nil error is returned)
\* or "panic" (the call does not return: panic(...) unwinds the decoder)
Ok(v, pos) == [st |-> "ok", v |-> v, pos |-> pos]
Error(pos) == [st |-> "error", v |-> <<>>, pos |-> pos]
Panic(pos) == [st |-> "panic", v |-> <<>>, pos |-> pos]
Fail(r) == [st |-> r.st, v |-> <<>>, pos |-> r.pos]

\* scanner.expect: an error token is returned as an error, any other
\* unexpected token panics; the token next() returns is not looked at
expect(toks, pos, tok) ==
    IF peek(toks, pos) = tok THEN Ok(<<>>, next(toks, pos).pos)
    ELSE IF peek(toks, pos) = "ERR" THEN Error(pos)
    ELSE Panic(pos)

\* "if err != nil { return }" after a call: the rest K runs on a result that
\* is no failure
Then(r, K(_)) == IF r.st = "ok" THEN K(r) ELSE Fail(r)

\* parseStr's escape switch: the character an escape stands for, "" if the
\* escape is not accepted
unescape(c) ==
    CASE c = "QUOTE" -> "QUOTE"
      [] c = "SLASH" -> "SLASH"
      [] c = "BSLASH" -> "BSLASH"
      [] c = "b" -> "BS"
      [] c = "f" -> "FF"
      [] c = "n" -> "NL"
      [] c = "r" -> "CR"
      [] c = "t" -> "TAB"
      [] OTHER -> ""

RECURSIVE parseStr(_)
\* scanner.parseStr: the text of a raw literal (a "str" lexeme holds only
\* accepted escapes)
parseStr(raw) ==
    IF raw = <<>> THEN <<>>
    ELSE IF Head(raw) = "BSLASH"
         THEN <<unescape(raw[2])>> \o parseStr(SubSeq(raw, 3, Len(raw)))
         ELSE <<Head(raw)>> \o parseStr(Tail(raw))

\* scanner.stringInBuffer after a string token read in one piece: spillstr
\* has run iff the literal holds an escape (an invalid one included)
stringInBuffer(tok) ==
    tok.t = "str" /\ \A i \in 1..Len(tok.s) : tok.s[i] # "BSLASH"

\* scanner.string of the lexeme consumed last
string(toks, pos) == parseStr(toks[pos - 1].s)

\* scanner.expectString: a token that is no string, and a string with another
\* text, are returned errors; the slice p.buf[p.str:p.pos-1] is taken with
\* p.str = -1 (a run-time panic) when the string was spilled and the builder
\* is empty or equal to s
expectString(toks, pos, s) ==
    IF peek(toks, pos) # "str" THEN Error(pos)
    ELSE IF stringInBuffer(toks[pos])
    THEN IF toks[pos].s = W(s) THEN Ok(<<>>, pos + 1) ELSE Error(pos + 1)
    ELSE IF parseStr(toks[pos].s) \notin {<<>>, W(s)} THEN Error(pos + 1)
    ELSE Panic(pos + 1)

(***************************************************************************)
(* readers (the decoder)                                                    *)
(***************************************************************************)
\* errorf: panics with the formatted message instead of returning an error
errorf(pos) == Panic(pos)

\* readString
readString(toks, pos) ==
    Then(expect(toks, pos, "str"), LAMBDA e : Ok(string(toks, e.pos), e.pos))

\* readInt: s.int() of the number consumed
readInt(toks, pos) ==
    Then(expect(toks, pos, "num"), LAMBDA e : Ok(toks[e.pos - 1].n, e.pos))

\* readNull
readNull(toks, pos) ==
    IF next(toks, pos).tok = "null" THEN Ok(<<>>, next(toks, pos).pos)
    ELSE errorf(next(toks, pos).pos)

\* readBool
readBool(toks, pos) ==
    IF next(toks, pos).tok = "true" THEN Ok(TRUE, next(toks, pos).pos)
    ELSE IF next(toks, pos).tok = "false" THEN Ok(FALSE, next(toks, pos).pos)
    ELSE errorf(next(toks, pos).pos)

\* Tag(s.buf[s.str : s.pos-1]): a tag is one word; any other text is no tag
tagOf(raw) == IF Len(raw) = 1 THEN raw[1] ELSE "?"

\* the head of a tagged object, as readInline, readBlock, readMetaValue and
\* readTags read it: {"t":<string>, the tag being taken from the buffer
readTag(toks, pos) ==
    Then(expect(toks, pos, "{"), LAMBDA a :
    Then(expectString(toks, a.pos, "t"), LAMBDA b :
    Then(expect(toks, b.pos, ":"), LAMBDA c :
    Then(expect(toks, c.pos, "str"), LAMBDA d :
         IF ~stringInBuffer(toks[d.pos - 1]) THEN errorf(d.pos)
         ELSE Ok(tagOf(toks[d.pos - 1].s), d.pos)))))

\* readTags(tags...): one of the given tags, then the closing brace
readTags(tags, toks, pos) ==
    Then(readTag(toks, pos), LAMBDA h :
         IF h.v \notin tags THEN errorf(h.pos)
         ELSE Then(expect(toks, h.pos, "}"), LAMBDA e : Ok(h.v, e.pos)))

\* readItem's tail: after an item of a tuple the closing bracket is expected
\* when no item is left (left = 1 before this one), a comma otherwise
itemEnd(toks, r, left) ==
    Then(r, LAMBDA it :
    Then(expect(toks, it.pos, IF left = 1 THEN "]" ELSE ","), LAMBDA e :
         Ok(it.v, e.pos)))

\* tupler: the opening bracket of a tuple
tupler(toks, pos) == expect(toks, pos, "[")

\* readObj(r): ,"c": before the content
objHead(toks, pos) ==
    Then(expect(toks, pos, ","), LAMBDA a :
    Then(expectString(toks, a.pos, "c"), LAMBDA b :
         expect(toks, b.pos, ":")))

\* readObj(r): the closing brace after the content r has read
readObj(toks, r) ==
    Then(r, LAMBDA c :
    Then(expect(toks, c.pos, "}"), LAMBDA e : Ok(c.v, e.pos)))

\* readEmptyObj(v)
readEmptyObj(toks, pos, v) ==
    Then(expect(toks, pos, "}"), LAMBDA e : Ok(v, e.pos))

RECURSIVE readElem(_, _, _), listLoop(_, _, _, _)

\* listr(r): a bracketed list
listr(kind, toks, pos) ==
    Then(expect(toks, pos, "["), LAMBDA e : listLoop(kind, toks, e.pos, <<>>))

\* the loop of listr: the closing bracket is looked for before each item, so
\* it is also accepted right after a comma
listLoop(kind, toks, pos, acc) ==
    IF peek(toks, pos) = "]" THEN Ok(acc, next(toks, pos).pos)
    ELSE Then(readElem(kind, toks, pos), LAMBDA it :
         Then(Ok(next(toks, it.pos).tok, next(toks, it.pos).pos), LAMBDA nx :
              IF nx.v = "]" THEN Ok(Append(acc, it.v), nx.pos)
              ELSE IF nx.v # "," THEN errorf(nx.pos)
              ELSE listLoop(kind, toks, nx.pos, Append(acc, it.v))))

\* readAttrKV
readAttrKV(toks, pos) ==
    Then(tupler(toks, pos), LAMBDA t :
    Then(itemEnd(toks, readString(toks, t.pos), 2), LAMBDA key :
    Then(itemEnd(toks, readString(toks, key.pos), 1), LAMBDA val :
         Ok([Key |-> key.v, Value |-> val.v], val.pos))))

\* readAttr
readAttr(toks, pos) ==
    Then(tupler(toks, pos), LAMBDA t :
    Then(itemEnd(toks, readString(toks, t.pos), 3), LAMBDA id :
    Then(itemEnd(toks, readElem("[string]", toks, id.pos), 2), LAMBDA cls :
    Then(itemEnd(toks, readElem("[attrkv]", toks, cls.pos), 1), LAMBDA kvs :
         Ok([Id |-> id.v, Classes |-> cls.v, KVs |-> kvs.v], kvs.pos)))))

\* readCaption: the short caption is null or a list of inlines
readCaption(toks, pos) ==
    Then(tupler(toks, pos), LAMBDA t :
    Then(itemEnd(toks, IF peek(toks, t.pos) # "null"
                       THEN readElem("[inline]", toks, t.pos)
                       ELSE readNull(toks, t.pos), 2), LAMBDA short :
    Then(itemEnd(toks, readElem("[block]", toks, short.pos), 1), LAMBDA long :
         Ok([HasShort |-> peek(toks, t.pos) # "null", Short |-> short.v,
             Long |-> long.v], long.pos))))

\* readStr, readEmph, readNote, readQuoted, readCode: the content of an
\* inline with the given tag
inlineContent(tag, toks, pos) ==
    CASE tag = "Str" ->
           Then(readString(toks, pos), LAMBDA r :
                Ok([tag |-> "Str", Text |-> r.v], r.pos))
      [] tag = "Emph" ->
           Then(readElem("[inline]", toks, pos), LAMBDA r :
                Ok([tag |-> "Emph", Inlines |-> r.v], r.pos))
      [] tag = "Note" ->
           Then(readElem("[block]", toks, pos), LAMBDA r :
                Ok([tag |-> "Note", Blocks |-> r.v], r.pos))
      [] tag = "Quoted" ->
           Then(tupler(toks, pos), LAMBDA t :
           Then(itemEnd(toks, readTags({"SingleQuote", "DoubleQuote"},
                                       toks, t.pos), 2), LAMBDA typ :
           Then(itemEnd(toks, readElem("[inline]", toks, typ.pos), 1),
                LAMBDA inl :
                Ok([tag |-> "Quoted", QuoteType |-> typ.v,
                    Inlines |-> inl.v], inl.pos))))
      [] tag = "Code" ->
           Then(tupler(toks, pos), LAMBDA t :
           Then(itemEnd(toks, readElem("attr", toks, t.pos), 2), LAMBDA attr :
           Then(itemEnd(toks, readString(toks, attr.pos), 1), LAMBDA code :
                Ok([tag |-> "Code", Attr |-> attr.v, Text |-> code.v],
                   code.pos))))

\* readInline: the tag decides the reader; an unknown tag is errorf
readInline(toks, pos) ==
    Then(readTag(toks, pos), LAMBDA h :
         IF h.v = "Space"
         THEN readEmptyObj(toks, h.pos, [tag |-> "Space"])
         ELSE IF h.v \notin {"Str", "Emph", "Quoted", "Code", "Note"}
         THEN errorf(h.pos)
         ELSE Then(objHead(toks, h.pos), LAMBDA c :
                   readObj(toks, inlineContent(h.v, toks, c.pos))))

\* readPara, readPlain, readBlockQuote, readBulletList, readHeader,
\* readFigure: the content of a block with the given tag
blockContent(tag, toks, pos) ==
    CASE tag \in {"Para", "Plain"} ->
           Then(readElem("[inline]", toks, pos), LAMBDA r :
                Ok([tag |-> tag, Inlines |-> r.v], r.pos))
      [] tag = "BlockQuote" ->
           Then(readElem("[block]", toks, pos), LAMBDA r :
                Ok([tag |-> tag, Blocks |-> r.v], r.pos))
      [] tag = "BulletList" ->
           Then(readElem("[[block]]", toks, pos), LAMBDA r :
                Ok([tag |-> tag, Items |-> r.v], r.pos))
      [] tag = "Header" ->
           Then(tupler(toks, pos), LAMBDA t :
           Then(itemEnd(toks, readInt(toks, t.pos), 3), LAMBDA lvl :
           Then(itemEnd(toks, readElem("attr", toks, lvl.pos), 2), LAMBDA attr :
           Then(itemEnd(toks, readElem("[inline]", toks, attr.pos), 1),
                LAMBDA inl :
                Ok([tag |-> tag, Attr |-> attr.v, Level |-> lvl.v,
                    Inlines |-> inl.v], inl.pos)))))
      [] tag = "Figure" ->
           Then(tupler(toks, pos), LAMBDA t :
           Then(itemEnd(toks, readElem("attr", toks, t.pos), 3), LAMBDA attr :
           Then(itemEnd(toks, readElem("caption", toks, attr.pos), 2),
                LAMBDA cap :
           Then(itemEnd(toks, readElem("[block]", toks, cap.pos), 1),
                LAMBDA blk :
                Ok([tag |-> tag, Attr |-> attr.v, Caption |-> cap.v,
                    Blocks |-> blk.v], blk.pos)))))

\* readBlock: the tag decides the reader; an unknown tag is errorf
readBlock(toks, pos) ==
    Then(readTag(toks, pos), LAMBDA h :
         IF h.v = "HorizontalRule"
         THEN readEmptyObj(toks, h.pos, [tag |-> "HorizontalRule"])
         ELSE IF h.v \notin {"Para", "Plain", "Header", "BulletList",
                             "Figure", "BlockQuote"}
         THEN errorf(h.pos)
         ELSE Then(objHead(toks, h.pos), LAMBDA c :
                   readObj(toks, blockContent(h.v, toks, c.pos))))

RECURSIVE readMetaLoop(_, _, _)
\* readMeta: the entries of a metadata map, in the order of the input
readMeta(toks, pos) ==
    Then(expect(toks, pos, "{"), LAMBDA e : readMetaLoop(toks, e.pos, <<>>))

\* the loop of readMeta; the key is s.string() of the string consumed
readMetaLoop(toks, pos, m) ==
    IF peek(toks, pos) = "}" THEN Ok(m, next(toks, pos).pos)
    ELSE Then(expect(toks, pos, "str"), LAMBDA k :
         Then(expect(toks, k.pos, ":"), LAMBDA c :
         Then(readElem("metavalue", toks, c.pos), LAMBDA val :
         Then(Ok(next(toks, val.pos).tok, next(toks, val.pos).pos), LAMBDA nx :
              IF nx.v = "}"
              THEN Ok(Append(m, [Key |-> string(toks, k.pos),
                                 Value |-> val.v]), nx.pos)
              ELSE IF nx.v # "," THEN errorf(nx.pos)
              ELSE readMetaLoop(toks, nx.pos,
                                Append(m, [Key |-> string(toks, k.pos),
                                           Value |-> val.v]))))))

\* readMetaMap, readMetaList, readMetaBool, readMetaString, readMetaInlines,
\* readMetaBlocks: the content of a metadata value with the given tag
metaContent(tag, toks, pos) ==
    CASE tag = "MetaMap" -> readElem("meta", toks, pos)
      [] tag = "MetaList" -> readElem("[metavalue]", toks, pos)
      [] tag = "MetaBool" -> readBool(toks, pos)
      [] tag = "MetaString" -> readString(toks, pos)
      [] tag = "MetaInlines" -> readElem("[inline]", toks, pos)
      [] tag = "MetaBlocks" -> readElem("[block]", toks, pos)

\* readMetaValue: the tag decides the reader; an unknown tag is errorf
readMetaValue(toks, pos) ==
    Then(readTag(toks, pos), LAMBDA h :
         IF h.v \notin {"MetaMap", "MetaList", "MetaBool", "MetaString",
                        "MetaInlines", "MetaBlocks"}
         THEN errorf(h.pos)
         ELSE Then(objHead(toks, h.pos), LAMBDA c :
              Then(readObj(toks, metaContent(h.v, toks, c.pos)), LAMBDA r :
                   Ok([tag |-> h.v, c |-> r.v], r.pos))))

\* the element kind of a list kind
elemKind(kind) ==
    CASE kind = "[inline]" -> "inline"
      [] kind = "[block]" -> "block"
      [] kind = "[[block]]" -> "[block]"
      [] kind = "[metavalue]" -> "metavalue"
      [] kind = "[string]" -> "string"
      [] kind = "[int]" -> "int"
      [] kind = "[attrkv]" -> "attrkv"

\* the reader a list, a tuple item or a field is instantiated with: a reader
\* of one value, or listr(r) for the kinds in brackets
readElem(kind, toks, pos) ==
    CASE kind = "inline" -> readInline(toks, pos)
      [] kind = "block" -> readBlock(toks, pos)
      [] kind = "metavalue" -> readMetaValue(toks, pos)
      [] kind = "meta" -> readMeta(toks, pos)
      [] kind = "string" -> readString(toks, pos)
      [] kind = "int" -> readInt(toks, pos)
      [] kind = "attrkv" -> readAttrKV(toks, pos)
      [] kind = "attr" -> readAttr(toks, pos)
      [] kind = "caption" -> readCaption(toks, pos)
      [] OTHER -> listr(elemKind(kind), toks, pos)

\* the implemented version (types.go: Version = "1.23.1")
ImplVersion == <<1, 23, 1>>

RECURSIVE cmpFrom(_, _, _)
\* the loop of cmpSemver from index i on
cmpFrom(mine, their, i) ==
    IF i > Len(mine)
    THEN IF i <= Len(their) THEN -1 ELSE 0
    ELSE IF i > Len(their) THEN 1
    ELSE IF mine[i] > their[i] THEN 1
    ELSE IF mine[i] < their[i] THEN -1
    ELSE cmpFrom(mine, their, i + 1)

\* cmpSemver
cmpSemver(mine, their) == cmpFrom(mine, their, 1)

\* readField: :<value> then a closing brace after the last field (n = 1),
\* a comma after the others
readField(toks, pos, n, kind) ==
    Then(expect(toks, pos, ":"), LAMBDA e :
    Then(readElem(kind, toks, e.pos), LAMBDA r :
    Then(expect(toks, r.pos, IF n = 1 THEN "}" ELSE ","), LAMBDA d :
         Ok(r.v, d.pos))))

RECURSIVE readFields(_, _, _, _)
\* the loop of ReadFrom: three fields, whichever they are; the version that
\* was read is compared and dropped
readFields(toks, pos, i, doc) ==
    IF i = 0 THEN Ok(doc, pos)
    ELSE Then(expect(toks, pos, "str"), LAMBDA e :
         IF ~stringInBuffer(toks[pos]) THEN errorf(e.pos)
         ELSE CASE tagOf(toks[pos].s) = "pandoc-api-version" ->
                     Then(readField(toks, e.pos, i, "[int]"), LAMBDA f :
                          IF cmpSemver(f.v, ImplVersion) < 0
                          THEN errorf(f.pos)
                          ELSE readFields(toks, f.pos, i - 1, doc))
                [] tagOf(toks[pos].s) = "meta" ->
                     Then(readField(toks, e.pos, i, "meta"), LAMBDA f :
                          readFields(toks, f.pos, i - 1,
                                     [doc EXCEPT !.Meta = f.v]))
                [] tagOf(toks[pos].s) = "blocks" ->
                     Then(readField(toks, e.pos, i, "[block]"), LAMBDA f :
                          readFields(toks, f.pos, i - 1,
                                     [doc EXCEPT !.Blocks = f.v]))
                [] OTHER -> errorf(e.pos))

\* what the caller of ReadFrom gets: (doc, nil), (nil, err) or a panic
returned(r) == [st |-> r.st, v |-> r.v]

\* ReadFrom; doc = &Pandoc{} starts with every field empty
ReadFrom(toks) ==
    returned(Then(expect(toks, 1, "{"), LAMBDA e :
                  readFields(toks, e.pos, 3, [Version |-> <<>>, Meta |-> <<>>,
                                              Blocks |-> <<>>])))

(***************************************************************************)
(* writer (write.go): the lexemes written                                   *)
(***************************************************************************)
\* appendQuote: what one character of the text becomes between the quotes
quoteChar(c) ==
    CASE c = "QUOTE" -> <<"BSLASH", "QUOTE">>
      [] c = "BSLASH" -> <<"BSLASH", "BSLASH">>
      [] c = "BS" -> <<"BSLASH", "b">>
      [] c = "FF" -> <<"BSLASH", "f">>
      [] c = "NL" -> <<"BSLASH", "n">>
      [] c = "CR" -> <<"BSLASH", "r">>
      [] c = "TAB" -> <<"BSLASH", "t">>
      [] OTHER -> <<c>>

RECURSIVE appendQuote(_)
\* appendQuote: the raw text of the literal written for a string
appendQuote(text) ==
    IF text = <<>> THEN <<>>
    ELSE quoteChar(Head(text)) \o appendQuote(Tail(text))

\* strconv.AppendQuote on one character: Go syntax, so a character that is
\* not printable is written as \x.. or \u....
goQuoteChar(c) ==
    CASE c = "DEL" -> <<"BSLASH", "x", "7", "f">>
      [] c = "NBSP" -> <<"BSLASH", "u", "0", "0", "a", "0">>
      [] OTHER -> quoteChar(c)

RECURSIVE goQuote(_)
\* strconv.AppendQuote
goQuote(text) ==
    IF text = <<>> THEN <<>>
    ELSE goQuoteChar(Head(text)) \o goQuote(Tail(text))

\* writeDelim
writeDelim(b) == <<P(b)>>

\* writeKey: the key quoted by strconv.AppendQuote, then a colon
writeKey(name) == <<S(goQuote(name)), Colon>>

\* writeNull
writeNull == <<NullT>>

\* wstr.write
wstr(text) == <<S(appendQuote(text))>>

\* wnum.write
wnum(n) == <<N(n)>>

\* tstr.write: {"t":<quoted tag>}
tstr(tag) == <<LBrace, S(W("t")), Colon, S(appendQuote(W(tag))), RBrace>>

\* t.write (withTag): {"t":"<tag>","c":<content>}
withTag(tag, c) ==
    <<LBrace, S(W("t")), Colon, S(W(tag)), Comma, S(W("c")), Colon>>
        \o c \o <<RBrace>>

\* t2.write
tuple2(e1, e2) == <<LBrack>> \o e1 \o <<Comma>> \o e2 \o <<RBrack>>

\* t3.write
tuple3(e1, e2, e3) ==
    <<LBrack>> \o e1 \o <<Comma>> \o e2 \o <<Comma>> \o e3 \o <<RBrack>>

RECURSIVE writeElem(_, _), joined(_, _, _)
RECURSIVE writeInline(_), writeBlock(_), writeMetaValue(_)

\* the loop of l.write, dl.write, wlstr.write, MetaMap.write, MetaList.write:
\* the elements from index i on, a comma before each but the first
joined(kind, lst, i) ==
    IF i > Len(lst) THEN <<>>
    ELSE (IF i > 1 THEN writeDelim(",") ELSE <<>>)
             \o writeElem(kind, lst[i]) \o joined(kind, lst, i + 1)

\* l.write
list(kind, lst) == writeDelim("[") \o joined(kind, lst, 1) \o writeDelim("]")

\* dl.write
dlist(kind, lst) == list(kind, lst)

\* AttrKV.write
writeAttrKV(a) == tuple2(wstr(a.Key), wstr(a.Value))

\* Attr.write
writeAttr(a) ==
    tuple3(wstr(a.Id), list("string", a.Classes), list("attrkv", a.KVs))

\* captionShort.write
captionShort(notNull, inlines) ==
    IF notNull THEN list("inline", inlines) ELSE writeNull

\* Caption.write
writeCaption(c) ==
    tuple2(captionShort(c.HasShort, c.Short), list("block", c.Long))

\* MetaMapEntry.write
writeMetaMapEntry(m) == writeKey(m.Key) \o writeMetaValue(m.Value)

\* MetaMap.write
writeMetaMap(m) ==
    writeDelim("{") \o joined("entry", m, 1) \o writeDelim("}")

\* the write method of each kind of element
writeElem(kind, e) ==
    CASE kind = "inline" -> writeInline(e)
      [] kind = "block" -> writeBlock(e)
      [] kind = "metavalue" -> writeMetaValue(e)
      [] kind = "string" -> wstr(e)
      [] kind = "int" -> wnum(e)
      [] kind = "attrkv" -> writeAttrKV(e)
      [] kind = "inlines" -> list("inline", e)
      [] kind = "blocks" -> list("block", e)
      [] kind = "entry" -> writeMetaMapEntry(e)

\* the write methods of Space, Str, Emph, Note, Quoted, Code
writeInline(e) ==
    CASE e.tag = "Space" -> tstr("Space")
      [] e.tag = "Str" -> withTag("Str", wstr(e.Text))
      [] e.tag = "Emph" -> withTag("Emph", list("inline", e.Inlines))
      [] e.tag = "Note" -> withTag("Note", list("block", e.Blocks))
      [] e.tag = "Quoted" ->
           withTag("Quoted", tuple2(tstr(e.QuoteType),
                                    list("inline", e.Inlines)))
      [] e.tag = "Code" ->
           withTag("Code", tuple2(writeAttr(e.Attr), wstr(e.Text)))

\* the write methods of HorizontalRule, Para, Plain, BlockQuote, BulletList,
\* Header, Figure
writeBlock(e) ==
    CASE e.tag = "HorizontalRule" -> tstr("HorizontalRule")
      [] e.tag \in {"Para", "Plain"} ->
           withTag(e.tag, list("inline", e.Inlines))
      [] e.tag = "BlockQuote" -> withTag(e.tag, list("block", e.Blocks))
      [] e.tag = "BulletList" -> withTag(e.tag, dlist("blocks", e.Items))
      [] e.tag = "Header" ->
           withTag(e.tag, tuple3(wnum(e.Level), writeAttr(e.Attr),
                                 list("inline", e.Inlines)))
      [] e.tag = "Figure" ->
           withTag(e.tag, tuple3(writeAttr(e.Attr), writeCaption(e.Caption),
                                 list("block", e.Blocks)))

\* metaValue.write around the write method of each metadata value
writeMetaValue(e) ==
    withTag(e.tag,
        CASE e.tag = "MetaMap" -> writeMetaMap(e.c)
          [] e.tag = "MetaList" -> list("metavalue", e.c)
          [] e.tag = "MetaBool" ->
               IF e.c THEN <<TrueT>> ELSE <<FalseT>>
          [] e.tag = "MetaString" -> wstr(e.c)
          [] e.tag = "MetaInlines" -> list("inline", e.c)
          [] e.tag = "MetaBlocks" -> list("block", e.c))

\* Doc.write: the version array of the document value, then meta, then blocks
DocWrite(p) ==
    writeDelim("{") \o writeKey(W("pandoc-api-version"))
        \o writeDelim("[") \o joined("int", p.Version, 1) \o writeDelim("]")
        \o writeDelim(",") \o writeKey(W("meta")) \o writeMetaMap(p.Meta)
        \o writeDelim(",") \o writeKey(W("blocks")) \o list("block", p.Blocks)
        \o writeDelim("}")

(***************************************************************************)
(* The inputs of the decoder: documents in the wire format, written as      *)
(* JSON values and serialised without whitespace, then possibly damaged.    *)
(***************************************************************************)
\* JSON values: j is the kind, s a string's text or an entry's key, n a
\* number, e the elements of an array, the entries of an object or the value
\* of an entry
jS(text) == [j |-> "s", s |-> text, n |-> 0, e |-> <<>>]
jN(i) == [j |-> "n", s |-> <<>>, n |-> i, e |-> <<>>]
jNull == [j |-> "null", s |-> <<>>, n |-> 0, e |-> <<>>]
jB(b) == [j |-> IF b THEN "true" ELSE "false", s |-> <<>>, n |-> 0, e |-> <<>>]
jA(elems) == [j |-> "arr", s |-> <<>>, n |-> 0, e |-> elems]
jO(entries) == [j |-> "obj", s |-> <<>>, n |-> 0, e |-> entries]
jKV(key, val) == [j |-> "kv", s |-> key, n |-> 0, e |-> <<val>>]

\* JSON string escaping: quote, backslash and the control characters that
\* have a short escape; everything else is written as it is
jsonEscape(c) ==
    CASE c \in {"QUOTE", "BSLASH"} -> <<"BSLASH", c>>
      [] c = "BS" -> <<"BSLASH", "b">>
      [] c = "FF" -> <<"BSLASH", "f">>
      [] c = "NL" -> <<"BSLASH", "n">>
      [] c = "CR" -> <<"BSLASH", "r">>
      [] c = "TAB" -> <<"BSLASH", "t">>
      [] OTHER -> <<c>>

RECURSIVE jsonQuote(_)
jsonQuote(text) ==
    IF text = <<>> THEN <<>>
    ELSE jsonEscape(Head(text)) \o jsonQuote(Tail(text))

RECURSIVE Ser(_), SerSeq(_, _)
\* the lexemes of a JSON value, no whitespace
Ser(v) ==
    CASE v.j = "s" -> <<S(jsonQuote(v.s))>>
      [] v.j = "n" -> <<N(v.n)>>
      [] v.j \in {"null", "true", "false"} -> <<P(v.j)>>
      [] v.j = "arr" -> <<LBrack>> \o SerSeq(v.e, 1) \o <<RBrack>>
      [] v.j = "obj" -> <<LBrace>> \o SerSeq(v.e, 1) \o <<RBrace>>
      [] v.j = "kv" -> <<S(jsonQuote(v.s)), Colon>> \o Ser(v.e[1])

SerSeq(vs, i) ==
    IF i > Len(vs) THEN <<>>
    ELSE (IF i > 1 THEN <<Comma>> ELSE <<>>) \o Ser(vs[i]) \o SerSeq(vs, i + 1)

\* tagged objects of the wire format
jT(tag, c) == jO(<<jKV(W("t"), jS(W(tag))), jKV(W("c"), c)>>)
jT0(tag) == jO(<<jKV(W("t"), jS(W(tag)))>>)

jAttr(id, classes, kvs) ==
    jA(<<jS(id), jA([i \in 1..Len(classes) |-> jS(classes[i])]),
         jA([i \in 1..Len(kvs) |-> jA(<<jS(kvs[i][1]), jS(kvs[i][2])>>)])>>)
jNoAttr == jAttr(<<>>, <<>>, <<>>)
jSomeAttr == jAttr(W("id"), <<W("c1"), <<"c", "QUOTE">>>>,
                   <<<<W("k"), W("v")>>, <<W("k"), <<"SLASH">>>>>>)

jSpace == jT0("Space")
jStr(text) == jT("Str", jS(text))
jEmph(inl) == jT("Emph", jA(inl))
jQuoted(q, inl) == jT("Quoted", jA(<<jT0(q), jA(inl)>>))
jCode(attr, text) == jT("Code", jA(<<attr, jS(text)>>))
jNote(blocks) == jT("Note", jA(blocks))

jHR == jT0("HorizontalRule")
jPara(inl) == jT("Para", jA(inl))
jPlain(inl) == jT("Plain", jA(inl))
jBlockQuote(blocks) == jT("BlockQuote", jA(blocks))
jBulletList(items) ==
    jT("BulletList", jA([i \in 1..Len(items) |-> jA(items[i])]))
jHeader(lvl, attr, inl) == jT("Header", jA(<<jN(lvl), attr, jA(inl)>>))
jFigure(attr, short, long, blocks) ==
    jT("Figure", jA(<<attr, jA(<<short, jA(long)>>), jA(blocks)>>))

\* texts: plain, empty, with characters that are escaped, with characters
\* that are not
Texts ==
    <<W("a"), <<>>, <<"a", "QUOTE", "BSLASH">>,
      <<"NL", "TAB", "CR", "BS", "FF">>, <<"SLASH", "DEL", "NBSP">>>>

\* the block sequences of the sample documents
SampleBlocks ==
    <<<<>>,
      <<jPara(<<jStr(Texts[1]), jSpace, jStr(Texts[3])>>)>>,
      <<jHR, jPlain(<<jEmph(<<jStr(Texts[4])>>), jStr(Texts[5])>>)>>,
      <<jHeader(2, jSomeAttr, <<jStr(Texts[1])>>),
        jPara(<<jQuoted("DoubleQuote", <<jStr(Texts[2])>>),
                jCode(jNoAttr, Texts[3])>>)>>,
      <<jBulletList(<<<<jPlain(<<jStr(Texts[1])>>)>>, <<>>,
                      <<jHR, jPara(<<>>)>>>>)>>,
      <<jFigure(jNoAttr, jNull, <<jPlain(<<jStr(Texts[1])>>)>>, <<jHR>>),
        jFigure(jSomeAttr, jA(<<>>), <<>>, <<>>),
        jFigure(jNoAttr, jA(<<jStr(Texts[1])>>), <<>>, <<jPara(<<>>)>>)>>,
      <<jBlockQuote(<<jPara(<<jNote(<<jPara(<<jStr(Texts[1])>>)>>)>>)>>)>>>>

\* the metadata maps of the sample documents (entries in wire order)
SampleMeta ==
    <<<<>>,
      <<jKV(W("title"), jT("MetaInlines", jA(<<jStr(Texts[1])>>)))>>,
      <<jKV(W("b"), jT("MetaBool", jB(TRUE))),
        jKV(W("a"), jT("MetaString", jS(Texts[3]))),
        jKV(W("c"), jT("MetaBool", jB(FALSE)))>>,
      <<jKV(W("m"), jT("MetaMap", jO(<<
            jKV(W("z"), jT("MetaList", jA(<<jT("MetaBool", jB(TRUE)),
                                            jT("MetaString", jS(<<>>))>>))),
            jKV(W("y"), jT("MetaBlocks", jA(<<jHR>>)))>>)))>>,
      <<jKV(<<"k", "QUOTE", "NL">>, jT("MetaString", jS(Texts[1])))>>,
      <<jKV(<<"k", "DEL">>, jT("MetaBool", jB(TRUE)))>>,
      <<jKV(<<"NBSP">>, jT("MetaList", jA(<<>>)))>>>>

\* the declared versions of the sample documents
SampleVersions ==
    <<<<1, 23, 1>>, <<1, 23>>, <<1, 23, 2>>, <<0, 9, 9>>, <<9, 0, 0>>,
      <<1, 22, 9>>, <<>>, <<1, 23, 1, 0>>, <<2>>, <<1, 24>>>>

\* longest top-level object tried with its keys repeated, missing or unknown
MaxFields == 4

\* the top-level field a letter stands for: v(ersion), m(eta), b(locks) and
\* x, a key the format does not have
fieldKV(f, ver, meta, blocks) ==
    CASE f = "v" -> jKV(W("pandoc-api-version"),
                        jA([i \in 1..Len(ver) |-> jN(ver[i])]))
      [] f = "m" -> jKV(W("meta"), jO(meta))
      [] f = "b" -> jKV(W("blocks"), jA(blocks))
      [] f = "x" -> jKV(W("extra"), jA(<<>>))

\* the lexemes of a document with the given top-level fields
DocTokens(ver, meta, blocks, fields) ==
    Ser(jO([i \in 1..Len(fields) |-> fieldKV(fields[i], ver, meta, blocks)]))

Canonical == <<"v", "m", "b">>

\* is lexeme i the tag of a tagged object
IsTagAt(toks, i) ==
    /\ i >= 3
    /\ toks[i].t = "str"
    /\ toks[i - 1] = Colon
    /\ toks[i - 2] = S(W("t"))

\* can lexeme i of toks be damaged that way; every damage leaves a stream
\* that is no document
CanDamage(toks, mut, i) ==
    CASE mut = "bad" -> TRUE
      [] mut = "trunc" -> TRUE
      [] mut = "del" ->
           ~(i > 1 /\ i < Len(toks) /\ toks[i - 1] = LBrack
                /\ toks[i + 1] = RBrack)
      [] mut = "badstr" -> toks[i].t = "str"
      [] mut = "badesc" ->
           /\ toks[i].t = "str"
           /\ i < Len(toks)
           /\ toks[i + 1].t \in {"}", "]", ",", ":"}
      [] mut = "bogus" -> IsTagAt(toks, i)

\* bad: lexeme i becomes a byte that starts no token; trunc: the stream ends
\* before lexeme i; del: lexeme i is missing; badstr: string i runs into \u;
\* badesc: the closing quote of string i is a backslash, which makes an
\* escape of the punctuation byte that follows;
\* bogus: tag i becomes a tag no variant has
Damage(toks, mut, i) ==
    LET pre == SubSeq(toks, 1, i - 1)
        post == SubSeq(toks, i + 1, Len(toks))
    IN CASE mut = "none" -> toks
         [] mut = "bad" -> pre \o <<BadT>> \o post
         [] mut = "trunc" -> pre
         [] mut = "del" -> pre \o post
         [] mut = "badstr" -> pre \o <<BadStr(toks[i].s), BadT>> \o post
         [] mut = "badesc" -> pre \o <<BadStr(toks[i].s)>> \o post
         [] mut = "bogus" -> pre \o <<S(W("Bogus"))>> \o post

Case(kind, v, m, b, fields, mut, i) ==
    [kind |-> kind, ver |-> v, meta |-> m, blocks |-> b, fields |-> fields,
     mut |-> mut, idx |-> i]

\* well-formed documents in the canonical layout
DocCases ==
    {Case("doc", v, m, b, Canonical, "none", 0) :
        v \in 1..Len(SampleVersions), m \in 1..Len(SampleMeta),
        b \in 1..Len(SampleBlocks)}

\* top-level objects with any fields in any order
KeyCases ==
    {Case("keys", v, 2, 2, f, "none", 0) :
        v \in {1, 4}, f \in UNION {[1..n -> {"v", "m", "b", "x"}] :
                                      n \in 2..MaxFields}}

\* the documents that are damaged
MutBases == {<<4, 4>>, <<3, 6>>, <<2, 7>>, <<5, 5>>}

MutCases ==
    UNION {LET toks == DocTokens(SampleVersions[1], SampleMeta[mb[1]],
                                 SampleBlocks[mb[2]], Canonical)
           IN {Case("mut", 1, mb[1], mb[2], Canonical, mut, i) :
                  <<mut, i>> \in {x \in {"bad", "trunc", "del", "badstr",
                                          "badesc", "bogus"}
                                         \X (1..Len(toks)) :
                                     CanDamage(toks, x[1], x[2])}}
           : mb \in MutBases}

\* the input a case stands for
InputOf(c) ==
    Damage(DocTokens(SampleVersions[c.ver], SampleMeta[c.meta],
                     SampleBlocks[c.blocks], c.fields), c.mut, c.idx)

(***************************************************************************)
(* The codec as a state machine: an input is chosen, decoded, and what was   *)
(* decoded is encoded.                                                       *)
(***************************************************************************)
Init ==
    /\ tc \in DocCases \cup KeyCases \cup MutCases
    /\ input = InputOf(tc)
    /\ cpc = "start"
    /\ dres = [st |-> "none", v |-> <<>>]
    /\ output = <<>>
    /\ wdoc = 0
    /\ wfun = <<>>
    /\ wpc = "idle"
    /\ wret = <<>>
    /\ mt = <<>>
    /\ mret = "none"
    /\ sbuf = <<>>
    /\ stok = [t |-> "none", s |-> <<>>]
    /\ lin = <<>>
    /\ lsc = <<>>
    /\ ltoks = <<>>
    /\ lpeek = <<>>
    /\ mm = <<>>
    /\ mset = <<>>
    /\ mop = <<>>
    /\ mn = 0
    /\ aheap = <<>>
    /\ arecv = <<>>
    /\ aview = <<>>
    /\ aret = <<>>
    /\ rop = <<>>
    /\ rpc = "idle"
    /\ rpipe = <<>>
    /\ rtool = <<>>
    /\ rcopy = <<>>
    /\ rres = <<>>

\* doc, err := ReadFrom(r)
Decode ==
    /\ cpc = "start"
    /\ dres' = ReadFrom(input)
    /\ cpc' = "decoded"
    /\ UNCHANGED <<tc, input, output, wdoc, wfun, wpc, wret, mt, mret, sbuf, stok,
                   lin, lsc, ltoks, lpeek, mm, mset, mop, mn, aheap, arecv,
                   aview, aret, rop, rpc, rpipe, rtool, rcopy, rres>>

\* Write(w, doc) for the document ReadFrom returned
Encode ==
    /\ cpc = "decoded"
    /\ dres.st = "ok"
    /\ output' = DocWrite(dres.v)
    /\ cpc' = "written"
    /\ UNCHANGED <<tc, input, dres, wdoc, wfun, wpc, wret, mt, mret, sbuf, stok,
                   lin, lsc, ltoks, lpeek, mm, mset, mop, mn, aheap, arecv,
                   aview, aret, rop, rpc, rpipe, rtool, rcopy, rres>>

Next == Decode \/ Encode

Spec == Init /\ [][Next]_vars

(***************************************************************************)
(* Properties of the codec                                                  *)
(***************************************************************************)
\* the order of versions the format defines: component by component, a
\* proper prefix being the smaller
VersionLess(a, b) ==
    \E k \in 1..(Len(b)) :
        /\ \A i \in 1..(k - 1) : i <= Len(a) /\ a[i] = b[i]
        /\ Len(a) >= k - 1
        /\ (Len(a) = k - 1 \/ a[k] < b[k])

Declared == SampleVersions[tc.ver]

\* the top-level object has each of the three keys exactly once
ExactlyOnce(fields) ==
    /\ Len(fields) = 3
    /\ {fields[i] : i \in 1..3} = {"v", "m", "b"}

\* the input is no document the format allows
Malformed(c) ==
    \/ c.mut # "none"
    \/ ~ExactlyOnce(c.fields)
    \/ VersionLess(SampleVersions[c.ver], ImplVersion)

\* C1: encoding the document decoded from a well-formed document in the
\* canonical layout yields the very lexemes that were decoded, the version
\* array included.
C1_RoundTrip ==
    (cpc = "written" /\ tc.kind = "doc") => output = input

\* C2: a declared version lower than the implemented one is rejected with an
\* error, an equal or higher one is accepted; cmpSemver is the three-way
\* order of versions, antisymmetric, a proper prefix being the smaller.
C2_VersionGate ==
    /\ \A i, j \in 1..Len(SampleVersions) :
          LET a == SampleVersions[i]
              b == SampleVersions[j]
          IN /\ cmpSemver(a, b) = -cmpSemver(b, a)
             /\ (cmpSemver(a, b) = -1) = VersionLess(a, b)
    /\ (cpc # "start" /\ tc.kind = "doc") =>
          IF VersionLess(Declared, ImplVersion)
          THEN dres.st = "error" ELSE dres.st = "ok"

\* C3: the top-level object is accepted only when it has each of the keys
\* pandoc-api-version, meta and blocks exactly once (in any order) and its
\* version passes the gate; a repeated, missing or unknown key makes decode
\* fail.
C3_TopLevelKeys ==
    (cpc # "start" /\ tc.kind = "keys") =>
        (dres.st = "ok" <=>
            ExactlyOnce(tc.fields) /\ ~VersionLess(Declared, ImplVersion))

\* C4: a tagged object with a tag no variant of the expected category has
\* makes decode fail with an error.
C4_UnknownTag ==
    (cpc # "start" /\ tc.mut = "bogus") => dres.st = "error"

\* C5: for every malformed input decode returns an error and no document;
\* it does not return a document and does not panic.
C5_MalformedIsError ==
    (cpc # "start" /\ Malformed(tc)) => (dres.st = "error" /\ dres.v = <<>>)


\* C19: a string literal with an escape other than \" \\ \/ \b \f \n \r \t
\* (\u included) makes the scanner return an error token, and so makes
\* ReadFrom return an error.
C19_BadEscapeIsError ==
    (cpc # "start" /\ tc.kind = "mut" /\ tc.mut \in {"badstr", "badesc"})
    => dres.st = "error"

\* the weaker statement, that such an input is at least not decoded into a
\* document
BadEscapeRejected ==
    (cpc # "start" /\ tc.kind = "mut" /\ tc.mut \in {"badstr", "badesc"})
    => dres.st # "ok"

\* the characters that may follow a backslash in what the writer emits
WriterEscapes == {"QUOTE", "BSLASH", "b", "f", "n", "r", "t"}

RECURSIVE OnlyWriterEscapes(_)
\* every backslash of a raw literal starts one of these escapes
OnlyWriterEscapes(raw) ==
    IF raw = <<>> THEN TRUE
    ELSE IF Head(raw) = "BSLASH"
    THEN /\ Len(raw) >= 2
         /\ raw[2] \in WriterEscapes
         /\ OnlyWriterEscapes(SubSeq(raw, 3, Len(raw)))
    ELSE OnlyWriterEscapes(Tail(raw))

\* C22: every string the writer emits (node text, attribute strings, object
\* keys) is quoted with the escapes \" \\ \b \f \n \r \t only, never \u or
\* another escape, so that the scanner decodes the literal back to the
\* string that was written.
C22_WriterEscapes ==
    cpc = "written"
    => \A i \in 1..Len(output) :
          output[i].t = "str" => OnlyWriterEscapes(output[i].s)

\* the same for the strings that are no object keys: they are written by
\* appendQuote
ValuesEscaped ==
    cpc = "written"
    => \A i \in 1..Len(output) :
          (output[i].t = "str" /\ (i = Len(output) \/ output[i + 1].t # ":"))
          => OnlyWriterEscapes(output[i].s)

(***************************************************************************)
(* The traversal engine.  An element is a record: id names the node, t is   *)
(* its type, a and b hold its child lists:                                  *)
(*   Pandoc        a = Meta ([]MetaMapEntry), b = Blocks                    *)
(*   MetaMapEntry  a = <<Value>>                                            *)
(*   Figure        a = Blocks, b = <<Caption.Short, Caption.Long>>          *)
(*   BulletList    a = Items ([][]Block)                                    *)
(*   Emph, Underline, Para, MetaInlines   a = Inlines                       *)
(*   Note, BlockQuote, MetaBlocks         a = Blocks                        *)
(*   Table         a = Bodies, b = <<Caption.Short, Caption.Long, Head,     *)
(*                 Foot>> (Head and Foot are TableHeadFoot elements)        *)
(*   TableHeadFoot a = Rows      TableBody  a = Head, b = Body              *)
(*   TableRow      a = Cells     TableCell  a = Blocks                      *)
(*   Str           no children                                              *)
(* A type is named by its Go name without the pointer star; the sequence    *)
(* shapes are "[]Inline" and "[]Block".                                     *)
(* References: new tells that the traversal allocated the node (a node of   *)
(* the input, or one the visiting function returned, has new = FALSE);      *)
(* fresh is the set of the child slices of a new node that are not the      *)
(* slices of the node it was built from, numbered in document order        *)
(* (BulletList: 1 is Items, k + 1 the k-th item; Table: 3 and 5 tell that   *)
(* Head and Foot are not the values of the table it was built from).        *)
(***************************************************************************)
Nd(id, t, a, b) ==
    [id |-> id, t |-> t, a |-> a, b |-> b, new |-> FALSE, fresh |-> {}]
Leaf(id, t) == Nd(id, t, <<>>, <<>>)
InlineOf(id, t, inlines) == Nd(id, t, inlines, <<>>)
BlockOf(id, t, children) == Nd(id, t, children, <<>>)

\* the zero value of an element interface
NilElt == Leaf(0, "nil")

InlineTags == {"Str", "Emph", "Underline", "Note"}
BlockTags == {"Para", "BlockQuote", "BulletList", "Figure", "Table"}

\* any(n).(T)
Implements(n, T) ==
    CASE T = "any" -> TRUE
      [] T = "Inline" -> n.t \in InlineTags
      [] T = "Block" -> n.t \in BlockTags
      [] OTHER -> n.t = T

\* the element type of a sequence shape
ElemOf(T) ==
    CASE T = "[]Inline" -> "Inline"
      [] T = "[]Block" -> "Block"
      [] OTHER -> "-"

Ids(lst) == [i \in 1..Len(lst) |-> lst[i].id]

\* traversalResult and its flags; "Err" is an error of the visiting function
\* that is no traversalResult
Results ==
    {"Continue", "Skip", "Halt", "ReplaceContinue", "ReplaceSkip", "ReplaceHalt"}
replace(r) == r \in {"ReplaceContinue", "ReplaceSkip", "ReplaceHalt"}
halt(r) == r \in {"Halt", "ReplaceHalt"}
skipChildren(r) == r \in {"Skip", "ReplaceSkip", "Halt", "ReplaceHalt"}
isResult(r) == r \in Results

(***************************************************************************)
(* The visiting function fun of type func(PT) ([]R, error) is a record       *)
(* [P, R, sp]: sp lists the arguments it answers specially, each with the   *)
(* error res and the slice rep it returns; every other argument gets        *)
(* (nil, Continue).  An argument is identified by the ids of the nodes      *)
(* handed over: <<id>> for a node, the ids of the elements for a sequence.  *)
(***************************************************************************)
NewOne(R) ==
    CASE R = "Inline" -> <<Leaf(101, "Str")>>
      [] R = "Block" -> <<InlineOf(111, "Para", <<Leaf(112, "Str")>>)>>
      [] R = "Para" -> <<InlineOf(121, "Para", <<Leaf(122, "Str")>>)>>
      [] R = "Emph" -> <<InlineOf(131, "Emph", <<>>)>>
      [] R = "TableHeadFoot" ->
            <<BlockOf(141, "TableHeadFoot", <<BlockOf(142, "TableRow", <<>>)>>)>>
      [] OTHER -> <<>>

NewTwo(R) ==
    CASE R = "Inline" ->
            <<InlineOf(102, "Emph", <<Leaf(103, "Str")>>), Leaf(104, "Str")>>
      [] R = "Block" ->
            <<BlockOf(113, "BlockQuote",
                      <<InlineOf(114, "Para", <<Leaf(115, "Str")>>)>>),
              InlineOf(116, "Para", <<>>)>>
      [] R = "Para" ->
            <<InlineOf(123, "Para",
                 <<BlockOf(124, "Note", <<InlineOf(125, "Para", <<>>)>>)>>),
              InlineOf(126, "Para", <<>>)>>
      [] R = "Emph" ->
            <<InlineOf(132, "Emph", <<InlineOf(133, "Emph", <<>>)>>),
              InlineOf(134, "Emph", <<>>)>>
      [] R = "TableHeadFoot" ->
            <<BlockOf(143, "TableHeadFoot", <<>>),
              BlockOf(144, "TableHeadFoot", <<>>)>>
      [] OTHER -> <<>>

\* the slice the function returns for the argument arg
repOf(f, name, arg) ==
    CASE name = "self" -> arg
      [] name = "one" -> NewOne(f.R)
      [] name = "two" -> NewTwo(f.R)
      [] OTHER -> <<>>

RECURSIVE lookup(_, _, _)
lookup(sp, i, key) ==
    IF i > Len(sp) THEN [at |-> key, res |-> "Continue", rep |-> "none"]
    ELSE IF sp[i].at = key THEN sp[i]
    ELSE lookup(sp, i + 1, key)

\* replace, err = fun(arg); arg is the sequence handed over, or <<node>>
\* same tells that the slice returned is the slice that was handed over
call(f, arg) ==
    [res |-> lookup(f.sp, 1, Ids(arg)).res,
     rep |-> repOf(f, lookup(f.sp, 1, Ids(arg)).rep, arg),
     same |-> lookup(f.sp, 1, Ids(arg)).rep = "self"]

\* what the walk has done so far: the arguments fun has been invoked on, and
\* the stores it made into slices it did not allocate
NoLog == [calls |-> <<>>, writes |-> <<>>]
invoked(log, arg) == [log EXCEPT !.calls = Append(@, arg)]
written(log, lst, i, item) ==
    [log EXCEPT !.writes = Append(@, [key |-> Ids(lst), slot |-> i, v |-> item])]

\* what a walk returns: the value, the error and the log; own holds 1 when
\* the value is not the slice (or node) that was passed in (walkLists: 1, 2
\* for the two slices; walkListOfLists: 1 for the outer slice, k + 1 for the
\* k-th inner one)
WalkedAs(v, r, log, own) == [v |-> v, r |-> r, log |-> log, own |-> own]
Walked(v, r, log) == WalkedAs(v, r, log, IF replace(r) THEN {1} ELSE {})

put(source, i, s) == [source EXCEPT ![i] = s]
delete(source, i) == SubSeq(source, 1, i - 1) \o SubSeq(source, i + 1, Len(source))
splice(source, i, repl) ==
    SubSeq(source, 1, i - 1) \o repl \o SubSeq(source, i + 1, Len(source))
\* source[i] = item when the walk of the element replaced it
upd(source, i, w) == IF replace(w.r) THEN put(source, i, w.v) ELSE source
\* the element a walked replacement leaves at its position
kept(s, w) == IF replace(w.r) THEN w.v ELSE s
\* "if updated return ReplaceHalt else Halt" and its Continue counterpart
haltOf(updated) == IF updated THEN "ReplaceHalt" ELSE "Halt"
contOf(updated) == IF updated THEN "ReplaceContinue" ELSE "Continue"

RECURSIVE walkChildren(_, _, _), walkList(_, _, _, _)
RECURSIVE seqLoop(_, _, _, _, _, _, _), seqStep(_, _, _, _, _, _, _)
RECURSIVE elemLoop(_, _, _, _, _, _, _), elemWalked(_, _, _, _, _, _, _)
RECURSIVE elemCalled(_, _, _, _, _, _, _, _), elemReplace(_, _, _, _, _, _, _, _)
RECURSIVE elemEnd(_, _, _, _, _, _, _), repOne(_, _, _, _, _, _, _, _)
RECURSIVE repSame(_, _, _, _, _, _, _, _, _), repSameStep(_, _, _, _, _, _, _, _, _)
RECURSIVE repConv(_, _, _, _, _, _, _, _, _), repConvStep(_, _, _, _, _, _, _, _, _)
RECURSIVE seqCalled(_, _, _, _, _)

\* walkList, sequence branch: fun has been invoked on the list (c).  With
\* sameInOut the slice fun returned becomes source as it is: when fun
\* returned the slice it was given, source is still the caller's slice
\* (alias) while updated is already true
seqCalled(src, ET, f, c, log) ==
    IF ~isResult(c.res) THEN Walked(src, c.res, log)
    ELSE IF replace(c.res) /\ f.R # ET
            /\ \E i \in 1..Len(c.rep) : ~Implements(c.rep[i], ET)
    THEN Walked(src, "ErrUnexpectedType", log)
    ELSE IF ~replace(c.res)
    THEN IF skipChildren(c.res) THEN Walked(src, c.res, log)
         ELSE seqLoop(src, src, f, 1, FALSE, FALSE, log)
    ELSE IF f.R = ET /\ c.same
    THEN IF skipChildren(c.res) THEN WalkedAs(src, c.res, log, {})
         ELSE seqLoop(src, src, f, 1, TRUE, TRUE, log)
    ELSE IF skipChildren(c.res) THEN Walked(c.rep, c.res, log)
    ELSE seqLoop(src, c.rep, f, 1, TRUE, FALSE, log)

\* walkList, sequence branch: the loop over the elements
seqLoop(src, source, f, i, updated, alias, log) ==
    IF i > Len(source)
    THEN WalkedAs(source, contOf(updated), log, IF updated /\ ~alias THEN {1} ELSE {})
    ELSE seqStep(src, source, f, i, updated, alias, walkChildren(source[i], f, log))

\* source[i] = item goes into the caller's slice when source is its alias
seqStep(src, source, f, i, updated, alias, w) ==
    IF ~isResult(w.r) THEN Walked(src, w.r, w.log)
    ELSE IF alias /\ replace(w.r)
    THEN IF halt(w.r)
         THEN WalkedAs(put(source, i, w.v), "ReplaceHalt",
                       written(w.log, source, i, w.v), {})
         ELSE seqLoop(put(source, i, w.v), put(source, i, w.v), f, i + 1, TRUE,
                      TRUE, written(w.log, source, i, w.v))
    ELSE IF halt(w.r)
    THEN WalkedAs(upd(source, i, w), haltOf(updated \/ replace(w.r)), w.log,
                  IF (updated \/ replace(w.r)) /\ ~alias THEN {1} ELSE {})
    ELSE seqLoop(src, upd(source, i, w), f, i + 1, updated \/ replace(w.r),
                 alias, w.log)

\* walkList, element branch: after walkChildren(source[i]) of an element fun
\* was not invoked on, or that fun left in place without skipping
elemWalked(src, source, ET, f, i, updated, w) ==
    IF ~isResult(w.r) THEN Walked(src, w.r, w.log)
    ELSE IF halt(w.r)
    THEN Walked(upd(source, i, w), haltOf(updated \/ replace(w.r)), w.log)
    ELSE elemLoop(src, upd(source, i, w), ET, f, i + 1,
                  updated \/ replace(w.r), w.log)

\* walkList, element branch: the closing "if rslt.halt()" of an iteration
\* that replaced the element (updated is true)
elemEnd(src, source, ET, f, i, r, log) ==
    IF halt(r) THEN Walked(source, "ReplaceHalt", log)
    ELSE elemLoop(src, source, ET, f, i, TRUE, log)

\* len(replace) == 1, children walked
repOne(src, source, ET, f, i, r, s, w) ==
    IF ~isResult(w.r) THEN Walked(src, w.r, w.log)
    ELSE IF halt(w.r) THEN Walked(put(source, i, kept(s, w)), "ReplaceHalt", w.log)
    ELSE elemEnd(src, put(source, i, kept(s, w)), ET, f, i + 1, r, w.log)

\* len(replace) > 1, sameInOut: the replacements are spliced in, then walked
repSame(src, source, ET, f, i, j, k, r, log) ==
    IF j >= k THEN elemEnd(src, source, ET, f, i + k, r, log)
    ELSE repSameStep(src, source, ET, f, i, j, k, r,
                     walkChildren(source[i + j], f, log))

repSameStep(src, source, ET, f, i, j, k, r, w) ==
    IF ~isResult(w.r) THEN Walked(src, w.r, w.log)
    ELSE IF halt(w.r) THEN Walked(upd(source, i + j, w), "ReplaceHalt", w.log)
    ELSE repSame(src, upd(source, i + j, w), ET, f, i, j + 1, k, r, w.log)

\* len(replace) > 1, not sameInOut: zero values are spliced in and each
\* replacement is converted, walked and stored
repConv(src, source, ET, f, i, j, repl, r, log) ==
    IF j >= Len(repl) THEN elemEnd(src, source, ET, f, i + Len(repl), r, log)
    ELSE IF ~Implements(repl[j + 1], ET)
    THEN Walked(src, "ErrUnexpectedType", log)
    ELSE repConvStep(src, source, ET, f, i, j, repl, r,
                     walkChildren(repl[j + 1], f, log))

repConvStep(src, source, ET, f, i, j, repl, r, w) ==
    IF ~isResult(w.r) THEN Walked(src, w.r, w.log)
    ELSE IF halt(w.r)
    THEN Walked(put(source, i + j, kept(repl[j + 1], w)), "ReplaceHalt", w.log)
    ELSE repConv(src, put(source, i + j, kept(repl[j + 1], w)), ET, f, i, j + 1,
                 repl, r, w.log)

\* walkList, element branch: fun returned replace
elemReplace(src, source, ET, f, i, r, repl, log) ==
    IF Len(repl) = 0 THEN elemEnd(src, delete(source, i), ET, f, i, r, log)
    ELSE IF Len(repl) = 1
    THEN IF ~Implements(repl[1], ET) THEN Walked(src, "ErrUnexpectedType", log)
         ELSE IF skipChildren(r)
         THEN elemEnd(src, put(source, i, repl[1]), ET, f, i + 1, r, log)
         ELSE repOne(src, source, ET, f, i, r, repl[1],
                     walkChildren(repl[1], f, log))
    ELSE IF f.R = ET
    THEN IF skipChildren(r)
         THEN elemEnd(src, splice(source, i, repl), ET, f, i + Len(repl), r, log)
         ELSE repSame(src, splice(source, i, repl), ET, f, i, 0, Len(repl), r, log)
    ELSE repConv(src, splice(source, i, [j \in 1..Len(repl) |-> NilElt]),
                 ET, f, i, 0, repl, r, log)

\* walkList, element branch: fun has been invoked on source[i] (c)
elemCalled(src, source, ET, f, i, updated, c, log) ==
    IF ~isResult(c.res) THEN Walked(src, c.res, log)
    ELSE IF replace(c.res) THEN elemReplace(src, source, ET, f, i, c.res, c.rep, log)
    ELSE IF ~skipChildren(c.res)
    THEN elemWalked(src, source, ET, f, i, updated,
                    walkChildren(source[i], f, log))
    ELSE IF halt(c.res) THEN Walked(source, haltOf(updated), log)
    ELSE elemLoop(src, source, ET, f, i + 1, updated, log)

\* walkList, element branch: the loop over the elements
elemLoop(src, source, ET, f, i, updated, log) ==
    IF i > Len(source) THEN Walked(source, contOf(updated), log)
    ELSE IF ~Implements(source[i], f.P)
    THEN elemWalked(src, source, ET, f, i, updated,
                    walkChildren(source[i], f, log))
    ELSE elemCalled(src, source, ET, f, i, updated, call(f, <<source[i]>>),
                    invoked(log, <<source[i]>>))

\* walkList(source []S, fun)
walkList(source, ET, f, log) ==
    IF ElemOf(f.P) = ET
    THEN seqCalled(source, ET, f, call(f, source), invoked(log, source))
    ELSE elemLoop(source, source, ET, f, 1, FALSE, log)

\* (a variant that returns a copy of both lists when either was replaced)
walkLists2Copying(l1, l2, w1, w2) ==
    IF ~isResult(w2.r) THEN Walked(<<l1, l2>>, w2.r, w2.log)
    ELSE WalkedAs(<<IF replace(w1.r) THEN w1.v ELSE l1,
                    IF replace(w2.r) THEN w2.v ELSE l2>>,
                  IF halt(w2.r) THEN haltOf(replace(w1.r) \/ replace(w2.r))
                  ELSE contOf(replace(w1.r) \/ replace(w2.r)),
                  w2.log,
                  IF replace(w1.r) \/ replace(w2.r) THEN {1, 2} ELSE {})

\* walkLists(l1, l2, fun): v is the pair of lists
walkLists2(l1, l2, w1, w2) ==
    IF ~isResult(w2.r) THEN Walked(<<l1, l2>>, w2.r, w2.log)
    ELSE WalkedAs(<<IF replace(w1.r) THEN w1.v ELSE l1,
                    IF replace(w2.r) THEN w2.v ELSE l2>>,
                  IF halt(w2.r) THEN haltOf(replace(w1.r) \/ replace(w2.r))
                  ELSE contOf(replace(w1.r) \/ replace(w2.r)),
                  w2.log,
                  (w1.own \cap {1}) \cup {2 : x \in w2.own \cap {1}})

walkLists1(l1, l2, S2, f, w1) ==
    IF ~isResult(w1.r) THEN Walked(<<l1, l2>>, w1.r, w1.log)
    ELSE IF halt(w1.r)
    THEN WalkedAs(<<IF replace(w1.r) THEN w1.v ELSE l1, l2>>,
                  haltOf(replace(w1.r)), w1.log, w1.own \cap {1})
    ELSE walkLists2(l1, l2, w1, walkList(l2, S2, f, w1.log))

walkLists(l1, S1, l2, S2, f, log) ==
    walkLists1(l1, l2, S2, f, walkList(l1, S1, f, log))

\* the marks of the inner slices when the i-th inner slice is removed
unmark(own, i) ==
    {k \in own : k <= i} \cup {k - 1 : k \in {x \in own : x > i + 1}}

\* walkListOfLists(source [][]S, fun); own marks the slices of source that are
\* not those of src
RECURSIVE walkListOfLists(_, _, _, _, _, _, _, _)
lolStep(src, source, ET, f, i, updated, own, w) ==
    IF ~isResult(w.r) THEN Walked(src, w.r, w.log)
    ELSE IF ~replace(w.r)
    THEN IF halt(w.r) THEN WalkedAs(source, haltOf(updated), w.log, own)
         ELSE walkListOfLists(src, source, ET, f, i + 1, updated, own, w.log)
    ELSE IF Len(w.v) = 0
    THEN IF halt(w.r)
         THEN WalkedAs(delete(source, i), "ReplaceHalt", w.log,
                       unmark(own, i) \cup {1})
         ELSE walkListOfLists(src, delete(source, i), ET, f, i, TRUE,
                              unmark(own, i) \cup {1}, w.log)
    ELSE IF halt(w.r)
    THEN WalkedAs(put(source, i, w.v), "ReplaceHalt", w.log,
                  own \cup {1} \cup {i + 1 : x \in w.own})
    ELSE walkListOfLists(src, put(source, i, w.v), ET, f, i + 1, TRUE,
                         own \cup {1} \cup {i + 1 : x \in w.own}, w.log)

walkListOfLists(src, source, ET, f, i, updated, own, log) ==
    IF i > Len(source) THEN WalkedAs(source, contOf(updated), log, own)
    ELSE lolStep(src, source, ET, f, i, updated, own,
                 walkList(source[i], ET, f, log))

\* &T{..., lst}: a new node around the child slices
alloc(e, a, b, fresh) == [e EXCEPT !.a = a, !.b = b, !.new = TRUE, !.fresh = fresh]

\* (a variant that builds a new element whatever the walk returned, and
\* reports it as a replacement)
rebuildAlways(e, w) ==
    IF isResult(w.r)
    THEN Walked(alloc(e, w.v, e.b, w.own),
                IF halt(w.r) THEN "ReplaceHalt" ELSE "ReplaceContinue", w.log)
    ELSE Walked(e, w.r, w.log)

\* the tail of most cases of walkChildren: the element is rebuilt around the
\* new child list when the walk of the list replaced something
rebuild(e, w) ==
    IF isResult(w.r) /\ replace(w.r)
    THEN Walked(alloc(e, w.v, e.b, w.own), w.r, w.log)
    ELSE Walked(e, w.r, w.log)

\* walkCaption(caption, fun): v is <<Short, Long>>
walkCaption(caption, f, log) ==
    walkLists(caption[1], "Inline", caption[2], "Block", f, log)

\* walkTableHeadFoot(hf, fun): the children of hf, or of the element fun
\* returned for it, have been walked (w)
hfWalked(src, updated, w) ==
    IF ~isResult(w.r) THEN Walked(src, w.r, w.log)
    ELSE IF ~replace(w.r) /\ updated
    THEN Walked(w.v, IF halt(w.r) THEN "ReplaceHalt" ELSE "ReplaceContinue",
                w.log)
    ELSE w

\* (a variant that takes the first node of a longer slice)
hfCalledFirst(hf, f, c, log) ==
    IF ~isResult(c.res) THEN Walked(hf, c.res, log)
    ELSE IF ~replace(c.res)
    THEN IF skipChildren(c.res) THEN Walked(hf, c.res, log)
         ELSE hfWalked(hf, FALSE, walkChildren(hf, f, log))
    ELSE IF Len(c.rep) = 0 THEN Walked(hf, "ErrUnexpectedType", log)
    ELSE IF ~Implements(c.rep[1], "TableHeadFoot")
    THEN Walked(hf, "ErrUnexpectedType", log)
    ELSE IF skipChildren(c.res) THEN Walked(c.rep[1], c.res, log)
    ELSE hfWalked(hf, TRUE, walkChildren(c.rep[1], f, log))

\* walkTableHeadFoot: fun has been invoked on hf (c)
hfCalled(hf, f, c, log) ==
    IF ~isResult(c.res) THEN Walked(hf, c.res, log)
    ELSE IF ~replace(c.res)
    THEN IF skipChildren(c.res) THEN Walked(hf, c.res, log)
         ELSE hfWalked(hf, FALSE, walkChildren(hf, f, log))
    ELSE IF Len(c.rep) # 1 THEN Walked(hf, "ErrUnexpectedType", log)
    ELSE IF ~Implements(c.rep[1], "TableHeadFoot")
    THEN Walked(hf, "ErrUnexpectedType", log)
    ELSE IF skipChildren(c.res) THEN Walked(c.rep[1], c.res, log)
    ELSE hfWalked(hf, TRUE, walkChildren(c.rep[1], f, log))

walkTableHeadFoot(hf, f, log) ==
    IF Implements(hf, f.P)
    THEN hfCalled(hf, f, call(f, <<hf>>), invoked(log, <<hf>>))
    ELSE walkChildren(hf, f, log)

\* walkTable(table, fun): st holds the locals caption (short, long), head,
\* bodies, foot and updated, and the parts that were replaced (fresh)
tableLocals(e) ==
    [short |-> e.b[1], long |-> e.b[2], head |-> e.b[3], bodies |-> e.a,
     foot |-> e.b[4], updated |-> FALSE, fresh |-> {}]

\* walkTable, label fin; r is the last result
tableFin(e, st, r, log) ==
    IF st.updated
    THEN Walked(alloc(e, st.bodies, <<st.short, st.long, st.head, st.foot>>,
                      st.fresh),
                IF halt(r) THEN "ReplaceHalt" ELSE "ReplaceContinue", log)
    ELSE Walked(e, r, log)

\* walkTable: the foot has been walked (w)
tableFoot(e, st, w) ==
    IF ~isResult(w.r) THEN Walked(e, w.r, w.log)
    ELSE tableFin(e, [st EXCEPT !.foot = w.v,
                                !.updated = @ \/ replace(w.r),
                                !.fresh = @ \cup {5 : x \in {k \in {1} : replace(w.r)}}],
                  w.r, w.log)

\* walkTable: the bodies have been walked (w)
tableBodies(e, f, st, w) ==
    IF ~isResult(w.r) THEN Walked(e, w.r, w.log)
    ELSE IF halt(w.r)
    THEN tableFin(e, [st EXCEPT !.bodies = w.v,
                                !.updated = @ \/ replace(w.r),
                                !.fresh = @ \cup {4 : x \in w.own}],
                  w.r, w.log)
    ELSE tableFoot(e, [st EXCEPT !.bodies = w.v,
                                 !.updated = @ \/ replace(w.r),
                                 !.fresh = @ \cup {4 : x \in w.own}],
                   walkTableHeadFoot(e.b[4], f, w.log))

\* (a variant that goes on to the bodies after a halt in the head)
tableHeadOn(e, f, st, w) ==
    IF ~isResult(w.r) THEN Walked(e, w.r, w.log)
    ELSE tableBodies(e, f, [st EXCEPT !.head = w.v,
                                      !.updated = @ \/ replace(w.r),
                                      !.fresh = @ \cup {3 : x \in {k \in {1} : replace(w.r)}}],
                     walkList(e.a, "TableBody", f, w.log))

\* walkTable: the head has been walked (w)
tableHead(e, f, st, w) ==
    IF ~isResult(w.r) THEN Walked(e, w.r, w.log)
    ELSE IF halt(w.r)
    THEN tableFin(e, [st EXCEPT !.head = w.v,
                                !.updated = @ \/ replace(w.r),
                                !.fresh = @ \cup {3 : x \in {k \in {1} : replace(w.r)}}],
                  w.r, w.log)
    ELSE tableBodies(e, f, [st EXCEPT !.head = w.v,
                                      !.updated = @ \/ replace(w.r),
                                      !.fresh = @ \cup {3 : x \in {k \in {1} : replace(w.r)}}],
                     walkList(e.a, "TableBody", f, w.log))

\* walkTable: the caption has been walked (w)
tableCaption(e, f, st, w) ==
    IF ~isResult(w.r) THEN Walked(e, w.r, w.log)
    ELSE IF halt(w.r)
    THEN tableFin(e, [st EXCEPT !.short = w.v[1], !.long = w.v[2],
                                !.updated = replace(w.r), !.fresh = w.own],
                  w.r, w.log)
    ELSE tableHead(e, f, [st EXCEPT !.short = w.v[1], !.long = w.v[2],
                                    !.updated = replace(w.r), !.fresh = w.own],
                   walkTableHeadFoot(e.b[3], f, w.log))

walkTable(e, f, log) ==
    tableCaption(e, f, tableLocals(e),
                 walkCaption(<<e.b[1], e.b[2]>>, f, log))

\* walkChildren, case *Figure: the blocks have been walked (w)
walkFigure2(e, wc, w) ==
    IF ~isResult(w.r) THEN Walked(e, w.r, w.log)
    ELSE IF replace(w.r)
    THEN Walked(alloc(e, w.v, wc.v, wc.own \cup {3 : x \in w.own}),
                IF halt(w.r) THEN "ReplaceHalt" ELSE "ReplaceContinue", w.log)
    ELSE IF replace(wc.r)
    THEN Walked(alloc(e, e.a, wc.v, wc.own),
                IF halt(w.r) THEN "ReplaceHalt" ELSE "ReplaceContinue", w.log)
    ELSE Walked(e, w.r, w.log)

\* walkChildren, case *Figure: the caption has been walked (wc)
walkFigure1(e, f, wc) ==
    IF ~isResult(wc.r) THEN Walked(e, wc.r, wc.log)
    ELSE IF halt(wc.r)
    THEN Walked(IF replace(wc.r) THEN alloc(e, e.a, wc.v, wc.own) ELSE e,
                wc.r, wc.log)
    ELSE walkFigure2(e, wc, walkList(e.a, "Block", f, wc.log))

walkFigure(e, f, log) == walkFigure1(e, f, walkCaption(e.b, f, log))

\* walkChildren, cases *Pandoc and *TableBody: v of w is the pair of lists
rebuildDoc(e, w) ==
    IF isResult(w.r) /\ replace(w.r)
    THEN Walked(alloc(e, w.v[1], w.v[2], w.own), w.r, w.log)
    ELSE Walked(e, w.r, w.log)

\* walkChildren, case MetaMapEntry: w is walkChildren(e.Value, fun)
rebuildEntry(e, w) ==
    IF isResult(w.r) /\ replace(w.r)
    THEN Walked(alloc(e, <<w.v>>, e.b, {}), w.r, w.log)
    ELSE Walked(e, w.r, w.log)

\* walkChildren(e, fun); a type the switch has no case for is returned as it
\* is, with a nil error
walkChildren(e, f, log) ==
    CASE e.t = "Pandoc" ->
            rebuildDoc(e, walkLists(e.a, "MetaMapEntry", e.b, "Block", f, log))
      [] e.t \in {"Emph", "Para", "MetaInlines"} ->
            rebuild(e, walkList(e.a, "Inline", f, log))
      [] e.t \in {"Note", "BlockQuote", "MetaBlocks", "TableCell"} ->
            rebuild(e, walkList(e.a, "Block", f, log))
      [] e.t = "Table" -> walkTable(e, f, log)
      [] e.t = "TableHeadFoot" -> rebuild(e, walkList(e.a, "TableRow", f, log))
      [] e.t = "TableBody" ->
            rebuildDoc(e, walkLists(e.a, "TableRow", e.b, "TableRow", f, log))
      [] e.t = "TableRow" -> rebuild(e, walkList(e.a, "TableCell", f, log))
      [] e.t = "BulletList" ->
            rebuild(e, walkListOfLists(e.a, e.a, "Block", f, 1, FALSE, {}, log))
      [] e.t = "Figure" -> walkFigure(e, f, log)
      [] e.t = "MetaMapEntry" -> rebuildEntry(e, walkChildren(e.a[1], f, log))
      [] OTHER -> Walked(e, "Continue", log)

\* what an entry point returns: the element, the error ("nil" for none), the
\* invocations of fun it made, and the stores into slices of the caller
Returned(v, err, log) ==
    [v |-> v, err |-> err, log |-> log.calls, writes |-> log.writes]

errOf(r) == IF isResult(r) THEN "nil" ELSE r

\* Filter(elt, fun)
filtered(w) == Returned(w.v, errOf(w.r), w.log)
Filter(elt, f) == filtered(walkChildren(elt, f, NoLog))

\* QueryE(elt, fun): fun is wrapped into func(e P) ([]queryResult, error)
\* that returns nil and the error of fun; the walked element is dropped
wrapE(f) ==
    [P |-> f.P, R |-> "queryResult",
     sp |-> [i \in 1..Len(f.sp) |-> [f.sp[i] EXCEPT !.rep = "none"]]]
queriedE(elt, w) == Returned(elt, errOf(w.r), w.log)
QueryE(elt, f) == queriedE(elt, walkChildren(elt, wrapE(f), NoLog))

\* Query(elt, fun): the wrapper returns nil, nil whatever fun does
wrap(f) == [P |-> f.P, R |-> "queryResult", sp |-> <<>>]
queried(elt, w) == Returned(elt, "nil", w.log)
Query(elt, f) == queried(elt, walkChildren(elt, wrap(f), NoLog))

(***************************************************************************)
(* The documents and visiting functions the traversal is run on             *)
(***************************************************************************)
Str(id) == Leaf(id, "Str")
Emph(id, inlines) == InlineOf(id, "Emph", inlines)
Underline(id, inlines) == InlineOf(id, "Underline", inlines)
Note(id, blocks) == BlockOf(id, "Note", blocks)
Para(id, inlines) == InlineOf(id, "Para", inlines)
BlockQuote(id, blocks) == BlockOf(id, "BlockQuote", blocks)
BulletList(id, items) == Nd(id, "BulletList", items, <<>>)
Figure(id, short, long, blocks) == Nd(id, "Figure", blocks, <<short, long>>)
MetaEntry(id, value) == Nd(id, "MetaMapEntry", <<value>>, <<>>)
MetaInlines(id, inlines) == InlineOf(id, "MetaInlines", inlines)
MetaBlocks(id, blocks) == BlockOf(id, "MetaBlocks", blocks)
Pandoc(meta, blocks) == Nd(1, "Pandoc", meta, blocks)
Table(id, short, long, head, bodies, foot) ==
    Nd(id, "Table", bodies, <<short, long, head, foot>>)
TableHeadFoot(id, rows) == BlockOf(id, "TableHeadFoot", rows)
TableBody(id, head, body) == Nd(id, "TableBody", head, body)
TableRow(id, cells) == BlockOf(id, "TableRow", cells)
TableCell(id, blocks) == BlockOf(id, "TableCell", blocks)

\* a row of one cell that holds one paragraph of one Str
TextRow(id) ==
    TableRow(id, <<TableCell(id + 1, <<Para(id + 2, <<Str(id + 3)>>)>>)>>)

SampleDocs ==
    << Pandoc(<<MetaEntry(2, MetaInlines(3, <<Str(4), Emph(5, <<Str(6)>>)>>))>>,
              <<Para(7, <<Str(8), Emph(9, <<Str(10)>>),
                          Note(11, <<Para(12, <<Str(13)>>)>>)>>),
                BlockQuote(14, <<Para(15, <<Emph(16, <<Str(17)>>)>>),
                                 Para(18, <<>>)>>)>>),
       Pandoc(<<MetaEntry(2, MetaBlocks(3, <<Para(4, <<Str(5)>>)>>))>>,
              <<Para(6, <<Str(7), Underline(8, <<Str(9)>>), Str(10)>>)>>),
       Pandoc(<<>>,
              <<Figure(2, <<Str(3)>>, <<Para(4, <<Str(5)>>)>>,
                          <<Para(6, <<Str(7)>>)>>),
                BulletList(8, <<<<Para(9, <<Str(10)>>)>>, <<Para(11, <<>>)>>>>),
                Para(12, <<Str(13), Str(14)>>)>>),
       Pandoc(<<>>,
              <<Table(2, <<Str(3)>>, <<Para(4, <<Str(5)>>)>>,
                      TableHeadFoot(6, <<TextRow(7)>>),
                      <<TableBody(11, <<TextRow(12)>>, <<TextRow(16)>>),
                        TableBody(20, <<>>, <<TextRow(21)>>)>>,
                      TableHeadFoot(25, <<TextRow(26)>>)),
                Para(30, <<Str(31)>>)>>) >>

\* the child lists of an element in document order, each with the type of
\* its elements
ChildLists(n) ==
    CASE n.t = "Pandoc" ->
            <<[S |-> "MetaMapEntry", l |-> n.a], [S |-> "Block", l |-> n.b]>>
      [] n.t = "Figure" ->
            <<[S |-> "Inline", l |-> n.b[1]], [S |-> "Block", l |-> n.b[2]],
              [S |-> "Block", l |-> n.a]>>
      [] n.t = "Table" ->
            <<[S |-> "Inline", l |-> n.b[1]], [S |-> "Block", l |-> n.b[2]],
              [S |-> "TableHeadFoot", l |-> <<n.b[3]>>],
              [S |-> "TableBody", l |-> n.a],
              [S |-> "TableHeadFoot", l |-> <<n.b[4]>>]>>
      [] n.t = "TableBody" ->
            <<[S |-> "TableRow", l |-> n.a], [S |-> "TableRow", l |-> n.b]>>
      [] n.t = "TableHeadFoot" -> <<[S |-> "TableRow", l |-> n.a]>>
      [] n.t = "TableRow" -> <<[S |-> "TableCell", l |-> n.a]>>
      [] n.t = "BulletList" ->
            [i \in 1..Len(n.a) |-> [S |-> "Block", l |-> n.a[i]]]
      [] n.t = "MetaMapEntry" -> <<[S |-> "MetaValue", l |-> n.a]>>
      [] n.t \in {"Emph", "Underline", "Para", "MetaInlines"} ->
            <<[S |-> "Inline", l |-> n.a]>>
      [] n.t \in {"Note", "BlockQuote", "MetaBlocks", "TableCell"} ->
            <<[S |-> "Block", l |-> n.a]>>
      [] OTHER -> <<>>

\* the arguments a function of parameter type P matches below an element, in
\* document order: depth-first, left to right, a node (or a sequence) before
\* what it contains
RECURSIVE VisitC(_, _, _), VisitE(_, _, _)
VisitL(l, ET, PT) ==
    (IF ElemOf(PT) = ET THEN <<Ids(l)>> ELSE <<>>) \o VisitE(l, 1, PT)
VisitC(cls, k, PT) ==
    IF k > Len(cls) THEN <<>>
    ELSE VisitL(cls[k].l, cls[k].S, PT) \o VisitC(cls, k + 1, PT)
VisitE(l, i, PT) ==
    IF i > Len(l) THEN <<>>
    ELSE (IF Implements(l[i], PT) THEN <<<<l[i].id>>>> ELSE <<>>)
         \o VisitC(ChildLists(l[i]), 1, PT) \o VisitE(l, i + 1, PT)

DocOrder(n, PT) == VisitC(ChildLists(n), 1, PT)
Below(lst, PT) == VisitE(lst, 1, PT)

Range(s) == {s[i] : i \in 1..Len(s)}

\* parameter and result types of the visiting functions
Shapes ==
    { [P |-> "Str", R |-> "Inline"], [P |-> "Inline", R |-> "Inline"],
      [P |-> "Para", R |-> "Block"], [P |-> "Block", R |-> "Block"],
      [P |-> "Para", R |-> "Para"], [P |-> "Emph", R |-> "Emph"],
      [P |-> "[]Inline", R |-> "Inline"], [P |-> "[]Block", R |-> "Block"],
      [P |-> "Str", R |-> "Block"],
      [P |-> "TableHeadFoot", R |-> "TableHeadFoot"],
      [P |-> "TableHeadFoot", R |-> "Block"] }

SingleNode(PT) == ElemOf(PT) = "-"

\* arguments inside the slices a function returns
FreshArgs(sh) ==
    UNION { Range(DocOrder(NewTwo(sh.R)[i], sh.P)) : i \in 1..Len(NewTwo(sh.R)) }

Answers ==
    { [res |-> r, rep |-> "none"] : r \in {"Skip", "Halt", "Err"} }
    \cup { [res |-> r, rep |-> p] :
             r \in {"ReplaceContinue", "ReplaceSkip", "ReplaceHalt"},
             p \in {"none", "self", "one", "two"} }

\* a function answers one argument of the document specially, and may answer
\* a second argument, of the document or of a returned slice, without
\* replacing it or by returning what it was given
Firsts(doc, sh) ==
    { [at |-> k, res |-> a.res, rep |-> a.rep] :
         k \in Range(DocOrder(doc, sh.P)), a \in Answers }
Seconds(doc, sh) ==
    { [at |-> k, res |-> a.res, rep |-> a.rep] :
         k \in Range(DocOrder(doc, sh.P)) \cup FreshArgs(sh),
         a \in { [res |-> "Skip", rep |-> "none"], [res |-> "Halt", rep |-> "none"],
                 [res |-> "Err", rep |-> "none"],
                 [res |-> "ReplaceContinue", rep |-> "self"] } }

\* a function of a sequence shape that replaces one sequence, returns another
\* one as it was given, and fails at a third
Thirds(doc, sh) ==
    IF SingleNode(sh.P) THEN {}
    ELSE { <<s, t, u>> :
             s \in {x \in Firsts(doc, sh) : x.res = "ReplaceContinue"},
             t \in {x \in Seconds(doc, sh) : x.rep = "self"},
             u \in {x \in Seconds(doc, sh) : x.res = "Err"} }

Funs(doc) ==
    { [P |-> sh.P, R |-> sh.R, sp |-> <<>>] : sh \in Shapes }
    \cup UNION { { [P |-> sh.P, R |-> sh.R, sp |-> <<s>>] : s \in Firsts(doc, sh) }
                 : sh \in Shapes }
    \cup UNION { UNION { { [P |-> sh.P, R |-> sh.R, sp |-> <<s, t>>] :
                             t \in {x \in Seconds(doc, sh) : x.at # s.at} }
                         : s \in Firsts(doc, sh) }
                 : sh \in Shapes }
    \cup UNION { { [P |-> sh.P, R |-> sh.R, sp |-> x] :
                     x \in {y \in Thirds(doc, sh) :
                               /\ y[1].at # y[2].at
                               /\ y[1].at # y[3].at
                               /\ y[2].at # y[3].at} }
                 : sh \in Shapes }

NoReturn == Returned(<<>>, "none", NoLog)

(***************************************************************************)
(* The traversal as a state machine: a document, a visiting function and    *)
(* an entry point are chosen, and the entry point is run.                   *)
(***************************************************************************)
InitWalk ==
    /\ wdoc \in 1..Len(SampleDocs)
    /\ wfun \in Funs(SampleDocs[wdoc])
    /\ wpc = "start"
    /\ wret = NoReturn
    /\ tc = [kind |-> "none"]
    /\ input = <<>>
    /\ cpc = "idle"
    /\ dres = [st |-> "none", v |-> <<>>]
    /\ output = <<>>
    /\ mt = <<>>
    /\ mret = "none"
    /\ sbuf = <<>>
    /\ stok = [t |-> "none", s |-> <<>>]
    /\ lin = <<>>
    /\ lsc = <<>>
    /\ ltoks = <<>>
    /\ lpeek = <<>>
    /\ mm = <<>>
    /\ mset = <<>>
    /\ mop = <<>>
    /\ mn = 0
    /\ aheap = <<>>
    /\ arecv = <<>>
    /\ aview = <<>>
    /\ aret = <<>>
    /\ rop = <<>>
    /\ rpc = "idle"
    /\ rpipe = <<>>
    /\ rtool = <<>>
    /\ rcopy = <<>>
    /\ rres = <<>>

\* elt, err := Filter(doc, fun)
DoFilter ==
    /\ wpc = "start"
    /\ wret' = Filter(SampleDocs[wdoc], wfun)
    /\ wpc' = "Filter"
    /\ UNCHANGED <<wdoc, wfun, tc, input, cpc, dres, output, mt, mret, sbuf, stok,
                   lin, lsc, ltoks, lpeek, mm, mset, mop, mn, aheap, arecv,
                   aview, aret, rop, rpc, rpipe, rtool, rcopy, rres>>

\* err := QueryE(doc, fun)
DoQueryE ==
    /\ wpc = "start"
    /\ wret' = QueryE(SampleDocs[wdoc], wfun)
    /\ wpc' = "QueryE"
    /\ UNCHANGED <<wdoc, wfun, tc, input, cpc, dres, output, mt, mret, sbuf, stok,
                   lin, lsc, ltoks, lpeek, mm, mset, mop, mn, aheap, arecv,
                   aview, aret, rop, rpc, rpipe, rtool, rcopy, rres>>

\* Query(doc, fun): fun is a func(P), it returns nothing
DoQuery ==
    /\ wpc = "start"
    /\ wfun.sp = <<>>
    /\ wret' = Query(SampleDocs[wdoc], wfun)
    /\ wpc' = "Query"
    /\ UNCHANGED <<wdoc, wfun, tc, input, cpc, dres, output, mt, mret, sbuf, stok,
                   lin, lsc, ltoks, lpeek, mm, mset, mop, mn, aheap, arecv,
                   aview, aret, rop, rpc, rpipe, rtool, rcopy, rres>>

NextWalk == DoFilter \/ DoQueryE \/ DoQuery

SpecWalk == InitWalk /\ [][NextWalk]_vars

(***************************************************************************)
(* Properties of the traversal                                              *)
(***************************************************************************)
TheDoc == SampleDocs[wdoc]

\* the function the walk was run with
TheFun ==
    CASE wpc = "QueryE" -> wrapE(wfun)
      [] wpc = "Query" -> wrap(wfun)
      [] OTHER -> wfun

\* the arguments of the invocations of fun, in the order they were made
Keys(log) == [i \in 1..Len(log) |-> Ids(log[i])]
Calls == Keys(wret.log)

\* what fun returned from its i-th invocation
Answer(i) == call(TheFun, wret.log[i])

\* the nodes strictly below the nodes of a list
Descendants(lst) ==
    UNION { Range(DocOrder(lst[i], "any")) : i \in 1..Len(lst) }

\* the ids of the nodes of a tree, and the id sequences of its inline and
\* block lists
NodeIds(n) == { k[1] : k \in Range(DocOrder(n, "any")) }
ListsOf(n) == Range(DocOrder(n, "[]Inline")) \cup Range(DocOrder(n, "[]Block"))

\* C6: with a single-node shape and a function that never skips, halts or
\* replaces, Filter and Query invoke the function on exactly the matching
\* descendants of the document, in document order (depth-first, left to
\* right, metadata before blocks, a node before its descendants).
C6_PreOrder ==
    (/\ wpc \in {"Filter", "Query"}
     /\ SingleNode(wfun.P)
     /\ TheFun.sp = <<>>)
    => Calls = DocOrder(TheDoc, wfun.P)

\* C7: with a sequence shape the function is invoked on a sequence only
\* after the sequences nested in its elements: no invocation is made on a
\* sequence that lies inside the argument of an earlier invocation.
C7_ChildrenFirst ==
    (wpc \in {"Filter", "Query"} /\ ~SingleNode(wfun.P))
    => \A i, j \in 1..Len(Calls) :
          i < j => Calls[j] \notin Range(Below(wret.log[i], wfun.P))

\* C8: when the function answers Skip or ReplaceSkip for a node, it is not
\* invoked on a descendant of that node nor on a descendant of the nodes it
\* returned for it, whatever its result type is.
C8_SkipChildren ==
    (wpc \in {"Filter", "QueryE"} /\ SingleNode(wfun.P))
    => \A i \in 1..Len(Calls) :
          Answer(i).res \in {"Skip", "ReplaceSkip"}
          => \A j \in 1..Len(Calls) :
                Calls[j] \notin Descendants(wret.log[i])
                                \cup Descendants(Answer(i).rep)

\* C9: an invocation the function answers with Halt or ReplaceHalt is the
\* last one of the Filter or QueryE call, and the nodes the function had
\* returned as replacements by then are in the tree Filter returns.
C9_HaltStops ==
    (wpc \in {"Filter", "QueryE"})
    => \A i \in 1..Len(Calls) :
          halt(Answer(i).res)
          => /\ i = Len(Calls)
             /\ (wpc = "Filter" /\ SingleNode(wfun.P) /\ wret.err = "nil")
                => \A j \in 1..i :
                      replace(Answer(j).res)
                      => Range(Ids(Answer(j).rep)) \subseteq NodeIds(wret.v)

\* the list of the document that holds the node with the given id, and the
\* position of the node in it
HomeOf(id) == CHOOSE k \in ListsOf(TheDoc) : \E p \in 1..Len(k) : k[p] = id
PosOf(id) == CHOOSE p \in 1..Len(HomeOf(id)) : HomeOf(id)[p] = id

\* C10: when the function returns replace with k nodes for the element at
\* position i of an inline or block sequence, replaces nothing else, and
\* Filter returns no error, the returned tree holds the sequence with the k
\* nodes in place of the element (none for k = 0; a sequence left empty may
\* be dropped by its owner); the function was not invoked on the returned
\* nodes; and unless the traversal was halted the element that followed
\* position i, when it matches, is invoked after it.
C10_Splice ==
    (/\ wpc = "Filter"
     /\ SingleNode(wfun.P)
     /\ wret.err = "nil")
    => \A i \in 1..Len(Calls) :
          (/\ replace(Answer(i).res)
           /\ Calls[i] \in Range(DocOrder(TheDoc, wfun.P))
           /\ \E k \in ListsOf(TheDoc) : Calls[i][1] \in Range(k)
           /\ \A j \in 1..Len(Calls) : j # i => ~replace(Answer(j).res))
          => LET x == Calls[i][1]
                 home == HomeOf(x)
                 p == PosOf(x)
                 new == Ids(Answer(i).rep)
             IN /\ splice(home, p, new) \in ListsOf(wret.v) \cup {<<>>}
                /\ \A j \in 1..Len(Calls) :
                      j # i => Calls[j][1] \notin Range(new)
                /\ (/\ p < Len(home)
                    /\ <<home[p + 1]>> \in Range(DocOrder(TheDoc, wfun.P))
                    /\ \A j \in 1..Len(Calls) : ~halt(Answer(j).res))
                   => \E j \in (i + 1)..Len(Calls) : Calls[j] = <<home[p + 1]>>

\* the function signals replace for no argument, and returns no error of its
\* own
NeverReplaces(f) ==
    \A i \in 1..Len(f.sp) : f.sp[i].res \in {"Skip", "Halt"}

\* C11: when the function never signals replace, Filter returns the root it
\* was given and the tree below it is the input's, node by node and slice by
\* slice: no node is newly built, no slice is new, nothing is stored.
C11_NoChangeIdentity ==
    (wpc = "Filter" /\ NeverReplaces(wfun))
    => /\ wret.v = TheDoc
       /\ wret.writes = <<>>
       /\ wret.err = "nil"

\* a Filter run with a function that skipped one node and halted at another
C11_Witness ==
    /\ wpc = "Filter"
    /\ NeverReplaces(wfun)
    /\ Len(wfun.sp) = 2
    /\ \E i, j \in 1..Len(Calls) :
          i < j /\ Answer(i).res = "Skip" /\ Answer(j).res = "Halt"
    /\ wret.v = TheDoc

\* the tree that differs from n only along the path to the node of id leaf,
\* which is replaced by node: the containers on the path are new, and of
\* their slices only the one the path goes through (for a bullet list the
\* list of items and the item)
OnPath(n, leaf) == <<leaf>> \in Range(DocOrder(n, "any"))
PathSlices(n, leaf) ==
    { k \in 1..Len(ChildLists(n)) :
         \E i \in 1..Len(ChildLists(n)[k].l) :
            \/ ChildLists(n)[k].l[i].id = leaf
            \/ OnPath(ChildLists(n)[k].l[i], leaf) }
PathFresh(n, leaf) ==
    CASE n.t = "BulletList" -> {1} \cup { k + 1 : k \in PathSlices(n, leaf) }
      [] n.t = "MetaMapEntry" -> {}
      [] OTHER -> PathSlices(n, leaf)
RECURSIVE PathCopy(_, _, _)
PathCopyList(l, leaf, node) == [i \in 1..Len(l) |-> PathCopy(l[i], leaf, node)]
PathCopy(n, leaf, node) ==
    IF n.id = leaf THEN node
    ELSE IF ~OnPath(n, leaf) THEN n
    ELSE [n EXCEPT
            !.a = IF n.t = "BulletList"
                  THEN [k \in 1..Len(n.a) |-> PathCopyList(n.a[k], leaf, node)]
                  ELSE PathCopyList(n.a, leaf, node),
            !.b = CASE n.t = "Figure" ->
                         <<PathCopyList(n.b[1], leaf, node),
                           PathCopyList(n.b[2], leaf, node)>>
                    [] n.t = "Table" ->
                         <<PathCopyList(n.b[1], leaf, node),
                           PathCopyList(n.b[2], leaf, node),
                           PathCopy(n.b[3], leaf, node),
                           PathCopy(n.b[4], leaf, node)>>
                    [] OTHER -> PathCopyList(n.b, leaf, node),
            !.new = TRUE,
            !.fresh = PathFresh(n, leaf)]

\* the i-th invocation replaced a leaf of the document by one node, and no
\* other invocation replaced anything
OneLeafReplaced(i) ==
    /\ wpc = "Filter"
    /\ SingleNode(wfun.P)
    /\ wret.err = "nil"
    /\ replace(Answer(i).res)
    /\ Len(Answer(i).rep) = 1
    /\ Calls[i] \in Range(DocOrder(TheDoc, wfun.P))
    /\ ChildLists(wret.log[i][1]) = <<>>
    /\ \A j \in 1..Len(Calls) : j # i => ~replace(Answer(j).res)

\* C12: when a Filter call replaces exactly one leaf by a node, the tree it
\* returns is the input tree with new containers and new child sequences on
\* the path from the root to that leaf and nowhere else: every other node
\* and every other sequence is the one of the input tree.
C12_PathCopy ==
    \A i \in 1..Len(Calls) :
       OneLeafReplaced(i)
       => wret.v = PathCopy(TheDoc, Calls[i][1], Answer(i).rep[1])

\* the leaf of a bullet list item replaced: the figure before the list and
\* the paragraph after it are the input's
C12_Witness ==
    \E i \in 1..Len(Calls) :
       /\ OneLeafReplaced(i)
       /\ wdoc = 3
       /\ Calls[i] = <<10>>
       /\ wret.v.new
       /\ wret.v.b[3] = TheDoc.b[3]
       /\ wret.v.b[1] = TheDoc.b[1]

\* C13: the traversal stores nothing into a slice of the tree it was given,
\* whatever the function answers (its own argument together with replace
\* included) and however the call ends.
C13_NoWriteToInput ==
    wpc \in {"Filter", "Query", "QueryE"} => wret.writes = <<>>

\* the function returned an error of its own from its i-th invocation
Failed(i) == Answer(i).res = "Err"

\* C14: when the function returns an error that is not a control result,
\* that invocation is the last one and Filter and QueryE return the error;
\* Filter returns the input root, and the tree below it is as it was before
\* the call: no replacement made earlier in the call is in it.
C14_FatalError ==
    wpc \in {"Filter", "QueryE"}
    => \A i \in 1..Len(Calls) :
          Failed(i)
          => /\ i = Len(Calls)
             /\ wret.err = "Err"
             /\ wpc = "Filter" => (wret.v = TheDoc /\ wret.writes = <<>>)

\* the positions of the nodes below n: the id of a node with the element type
\* of the sequence (or of the table field) that holds it
RECURSIVE Slots(_)
Slots(n) ==
    UNION { UNION { {<<ChildLists(n)[k].l[i].id, ChildLists(n)[k].S>>}
                    \cup Slots(ChildLists(n)[k].l[i])
                    : i \in 1..Len(ChildLists(n)[k].l) }
            : k \in 1..Len(ChildLists(n)) }

\* the slice the function returned from its i-th invocation, on a node of the
\* document, cannot take the place of that node: one of its nodes is not of
\* the element type of the position, or the position is the head or the foot
\* of a table and the slice does not hold exactly one node
Incompatible(i) ==
    /\ replace(Answer(i).res)
    /\ \E s \in Slots(TheDoc) :
          /\ Calls[i] = <<s[1]>>
          /\ \/ s[2] = "TableHeadFoot" /\ Len(Answer(i).rep) # 1
             \/ \E j \in 1..Len(Answer(i).rep) :
                   ~Implements(Answer(i).rep[j], s[2])

\* C15: when the function signals replace with nodes that cannot take the
\* place of the node it was invoked on, Filter returns ErrUnexpectedType and
\* the input root, with the tree below it as it was.
C15_UnexpectedType ==
    wpc = "Filter"
    => \A i \in 1..Len(Calls) :
          Incompatible(i)
          => /\ wret.err = "ErrUnexpectedType"
             /\ wret.v = TheDoc
             /\ wret.writes = <<>>

\* a block returned for a Str after an earlier invocation, and two nodes
\* returned for the foot of a table
C15_Witness ==
    /\ wpc = "Filter"
    /\ wret.err = "ErrUnexpectedType"
    /\ \E i \in 2..Len(Calls) : Incompatible(i)
    /\ \/ wfun.P = "Str" /\ wfun.R = "Block"
       \/ /\ wfun.P = "TableHeadFoot"
          /\ Calls[Len(Calls)] = <<25>>
          /\ Len(Answer(Len(Calls)).rep) = 2

\* the function that answers as f does but without the replace flag
Unflagged(r) ==
    CASE r = "ReplaceContinue" -> "Continue"
      [] r = "ReplaceSkip" -> "Skip"
      [] r = "ReplaceHalt" -> "Halt"
      [] OTHER -> r
WithoutReplace(f) ==
    [f EXCEPT !.sp = [i \in 1..Len(f.sp) |->
                         [f.sp[i] EXCEPT !.res = Unflagged(@), !.rep = "none"]]]

\* C16: QueryE with a function that returns results carrying the replace
\* flag invokes it on the same nodes, in the same order, and returns the
\* same error as QueryE with the function that returns these results
\* without the flag, and stores nothing into the tree.
C16_ReplaceIgnored ==
    wpc = "QueryE"
    => /\ wret.log = QueryE(TheDoc, WithoutReplace(wfun)).log
       /\ wret.err = QueryE(TheDoc, WithoutReplace(wfun)).err
       /\ wret.writes = <<>>

\* the tables among the blocks of a document, and the parts of a table in
\* the order of the claim: caption short, caption long, head, then for each
\* body group its head rows and its body rows, foot; a part is the set of
\* the ids of its nodes
TablesOf(doc) == { doc.b[i] : i \in {k \in 1..Len(doc.b) : doc.b[k].t = "Table"} }
IdsUnder(lst) == UNION { {lst[i].id} \cup NodeIds(lst[i]) : i \in 1..Len(lst) }
BodyParts(bodies) ==
    [k \in 1..(2 * Len(bodies)) |->
        IF k % 2 = 1
        THEN {bodies[(k + 1) \div 2].id} \cup IdsUnder(bodies[(k + 1) \div 2].a)
        ELSE IdsUnder(bodies[k \div 2].b)]
PartIds(t) ==
    <<IdsUnder(t.b[1]), IdsUnder(t.b[2]), IdsUnder(<<t.b[3]>>)>>
    \o BodyParts(t.a) \o <<IdsUnder(<<t.b[4]>>)>>

\* the tables of the sample documents, each with the number of the part that
\* holds a node, by the id of the node
RankIn(t) ==
    [id \in UNION Range(PartIds(t)) |->
        CHOOSE k \in 1..Len(PartIds(t)) : id \in PartIds(t)[k]]
Ranked ==
    [d \in 1..Len(SampleDocs) |->
        { [t |-> t, rk |-> RankIn(t)] : t \in TablesOf(SampleDocs[d]) }]

\* the i-th invocation was made on a node (or on a sequence that starts with
\* a node) of a part of the table, and the number of that part
InTable(x, i) == Calls[i] # <<>> /\ Calls[i][1] \in DOMAIN x.rk
PartOf(x, i) == x.rk[Calls[i][1]]

\* C17: the invocations on the nodes of a table come part by part in the
\* order caption short, caption long, head rows, each body group (head rows,
\* body rows), foot rows; a function that never skips, halts or replaces is
\* invoked in every part that holds a matching node; and after a halt
\* signalled in one part no later part is visited.
C17_TableOrder ==
    wpc \in {"Filter", "Query", "QueryE"}
    => \A x \in Ranked[wdoc] :
          /\ \A i, j \in 1..Len(Calls) :
                (i < j /\ InTable(x, i) /\ InTable(x, j))
                => PartOf(x, i) <= PartOf(x, j)
          /\ (SingleNode(wfun.P) /\ TheFun.sp = <<>>)
             => \A y \in Range(DocOrder(x.t, wfun.P)) :
                   \E i \in 1..Len(Calls) :
                      InTable(x, i) /\ PartOf(x, i) = x.rk[y[1]]
          /\ \A i, j \in 1..Len(Calls) :
                (InTable(x, i) /\ halt(Answer(i).res) /\ InTable(x, j))
                => PartOf(x, j) <= PartOf(x, i)

\* Query for Str over the table document: caption, head, the two body
\* groups, foot, then the paragraph that follows the table
C17_Witness ==
    /\ wpc = "Query"
    /\ wdoc = 4
    /\ wfun.P = "Str"
    /\ Calls = << <<3>>, <<5>>, <<10>>, <<15>>, <<19>>, <<24>>, <<29>>, <<31>> >>

\* a halt signalled in the head of the table
C17_HaltWitness ==
    /\ wpc = "Filter"
    /\ wdoc = 4
    /\ \E i \in 1..Len(Calls) :
          \E x \in Ranked[wdoc] :
             InTable(x, i) /\ PartOf(x, i) = 3 /\ halt(Answer(i).res)

(***************************************************************************)
(* Match(m, e).  T is the type parameter of the template m: the type of a   *)
(* node ("Para"), or an interface ("Inline", "Block").  The outcome is      *)
(* "true", "false", or "panic" for a failed type assertion                  *)
(* any(m).(inlinesContainer) or any(m).(blocksContainer).                   *)
(***************************************************************************)
\* the types with a method inlines() or blocks(), among those of the model
InlinesContainers == {"Emph", "Underline", "Para", "MetaInlines"}
BlocksContainers == {"Note", "BlockQuote", "MetaBlocks", "TableCell"}

RECURSIVE Match(_, _, _), matchList(_, _, _, _)

\* Match, case inlinesContainer: matchList has returned ml
matchedInlines(ml) ==
    IF ml = "panic" THEN "panic" ELSE IF ml # "true" THEN "false" ELSE "true"

\* Match, case blocksContainer: matchList has returned ml
matchedBlocks(ml) ==
    IF ml = "panic" THEN "panic" ELSE IF ml = "true" THEN "false" ELSE "true"

Match(T, m, e) ==
    IF ~Implements(e, T) THEN "false"
    ELSE IF e.t \in InlinesContainers
    THEN IF m.t \notin InlinesContainers THEN "panic"
         ELSE matchedInlines(matchList("Inline", m.a, e.a, 1))
    ELSE IF e.t \in BlocksContainers
    THEN IF m.t \notin BlocksContainers THEN "panic"
         ELSE matchedBlocks(matchList("Block", m.a, e.a, 1))
    ELSE "true"

\* matchList(t, l), from the i-th element on (the lengths are compared first)
matchNext(T, t, l, i, r) ==
    IF r # "true" THEN r ELSE matchList(T, t, l, i + 1)
matchList(T, t, l, i) ==
    IF Len(t) # Len(l) THEN "false"
    ELSE IF i > Len(t) THEN "true"
    ELSE matchNext(T, t, l, i, Match(T, t[i], l[i]))

\* templates and elements
MatchSamples ==
    { Str(0), Emph(0, <<>>), Emph(0, <<Str(0)>>), Emph(0, <<Emph(0, <<>>)>>),
      Para(0, <<>>), Para(0, <<Str(0), Emph(0, <<Str(0)>>)>>),
      Para(0, <<Emph(0, <<Str(0)>>), Str(0)>>), Para(0, <<Str(0), Str(0)>>),
      Note(0, <<Para(0, <<Str(0)>>)>>),
      BlockQuote(0, <<>>), BlockQuote(0, <<Para(0, <<Str(0)>>)>>),
      BlockQuote(0, <<BlockQuote(0, <<>>)>>),
      BlockQuote(0, <<Para(0, <<Str(0)>>), BlockQuote(0, <<>>)>>) }

\* the types a template of a given node type can be declared with
TypesOf(m) == {m.t} \cup {T \in {"Inline", "Block"} : Implements(m, T)}

InitMatch ==
    /\ mt \in UNION { { [T |-> T, m |-> m, e |-> e] : T \in TypesOf(m), e \in MatchSamples }
                      : m \in MatchSamples }
    /\ mret = "none"
    /\ sbuf = <<>>
    /\ stok = [t |-> "none", s |-> <<>>]
    /\ wdoc = 0
    /\ wfun = <<>>
    /\ wpc = "idle"
    /\ wret = <<>>
    /\ tc = [kind |-> "none"]
    /\ input = <<>>
    /\ cpc = "idle"
    /\ dres = [st |-> "none", v |-> <<>>]
    /\ output = <<>>
    /\ lin = <<>>
    /\ lsc = <<>>
    /\ ltoks = <<>>
    /\ lpeek = <<>>
    /\ mm = <<>>
    /\ mset = <<>>
    /\ mop = <<>>
    /\ mn = 0
    /\ aheap = <<>>
    /\ arecv = <<>>
    /\ aview = <<>>
    /\ aret = <<>>
    /\ rop = <<>>
    /\ rpc = "idle"
    /\ rpipe = <<>>
    /\ rtool = <<>>
    /\ rcopy = <<>>
    /\ rres = <<>>

\* r, ok := Match(m, e)
DoMatch ==
    /\ mret = "none"
    /\ mret' = Match(mt.T, mt.m, mt.e)
    /\ UNCHANGED <<mt, sbuf, stok, wdoc, wfun, wpc, wret, tc, input, cpc, dres,
                   output, lin, lsc, ltoks, lpeek, mm, mset, mop, mn, aheap,
                   arecv, aview, aret, rop, rpc, rpipe, rtool, rcopy, rres>>

NextMatch == DoMatch

SpecMatch == InitMatch /\ [][NextMatch]_vars

\* e is of the variant of m, and when they hold inlines or blocks, e holds
\* as many children as m and each matches the child of m at its place
RECURSIVE SameShape(_, _)
SameShape(m, e) ==
    /\ e.t = m.t
    /\ (m.t \in InlinesContainers \cup BlocksContainers)
       => /\ Len(e.a) = Len(m.a)
          /\ \A i \in 1..Len(m.a) : SameShape(m.a[i], e.a[i])

\* C18: Match returns true exactly when e is of the same variant as the
\* template and, for the containers of inlines and of blocks, has as many
\* children, each matching the template's child at its place; it returns
\* false in every other case, and never panics.
C18_Match ==
    mret # "none"
    => mret = IF SameShape(mt.m, mt.e) THEN "true" ELSE "false"

(***************************************************************************)
(* scanner.parseStr on bytes.  sbuf holds the bytes of the input that       *)
(* follow the opening quote of a string literal, up to the end of the       *)
(* input, all of them in the buffer (the input is shorter than the buffer   *)
(* and the reader hands it over in one piece, so that ensure(n) tells       *)
(* whether n bytes are left).  The token returned is [t, s]: t is "str"     *)
(* with the text s of the literal (what scanner.string returns), or "err".  *)
(***************************************************************************)
DQuote == 34
BSlash == 92
RuneSelf == 128

\* bits.LeadingZeros8(^c): the number of leading one bits of a byte
LeadingOnes(c) ==
    IF c < 128 THEN 0 ELSE IF c < 192 THEN 1 ELSE IF c < 224 THEN 2
    ELSE IF c < 240 THEN 3 ELSE IF c < 248 THEN 4 ELSE IF c < 252 THEN 5
    ELSE IF c < 254 THEN 6 ELSE IF c < 255 THEN 7 ELSE 8

\* the range utf8.DecodeRune accepts for the second byte after a lead byte
SecondLo(c) == IF c = 224 THEN 160 ELSE IF c = 240 THEN 144 ELSE 128
SecondHi(c) == IF c = 237 THEN 159 ELSE IF c = 244 THEN 143 ELSE 191
IsCont(b) == b >= 128 /\ b <= 191

\* the size n of _, n := utf8.DecodeRune(p): the length of the encoding p
\* starts with, 1 for an invalid or short one, 0 for no bytes
DecodeRuneSize(p) ==
    IF Len(p) = 0 THEN 0
    ELSE IF p[1] < 128 THEN 1
    ELSE IF p[1] < 194 \/ p[1] > 244 THEN 1
    ELSE IF Len(p) < LeadingOnes(p[1]) THEN 1
    ELSE IF p[2] < SecondLo(p[1]) \/ p[2] > SecondHi(p[1]) THEN 1
    ELSE IF LeadingOnes(p[1]) = 2 THEN 2
    ELSE IF ~IsCont(p[3]) THEN 1
    ELSE IF LeadingOnes(p[1]) = 3 THEN 3
    ELSE IF ~IsCont(p[4]) THEN 1
    ELSE 4

\* the escape switch of parseStr on bytes: the byte written for the byte
\* after a backslash, -1 for the default case
unescapeByte(c) ==
    CASE c = 34 -> 34
      [] c = 47 -> 47
      [] c = 92 -> 92
      [] c = 98 -> 8
      [] c = 102 -> 12
      [] c = 110 -> 10
      [] c = 114 -> 13
      [] c = 116 -> 9
      [] OTHER -> -1

StrTok(s) == [t |-> "str", s |-> s]
ErrTok == [t |-> "err", s |-> <<>>]

RECURSIVE scanStr(_, _, _)
\* label escape: pos is at the byte after the backslash
scanEscape(buf, pos, out) ==
    IF pos > Len(buf) THEN ErrTok
    ELSE IF unescapeByte(buf[pos]) = -1 THEN ErrTok
    ELSE scanStr(buf, pos + 1, Append(out, unescapeByte(buf[pos])))

\* the branch c >= utf8.RuneSelf; b is the number of leading one bits
scanRune(buf, pos, out, b) ==
    IF b > 4 THEN ErrTok
    ELSE IF Len(buf) - pos + 1 < b THEN ErrTok
    ELSE IF DecodeRuneSize(SubSeq(buf, pos, Len(buf))) # b THEN ErrTok
    ELSE scanStr(buf, pos + b, out \o SubSeq(buf, pos, pos + b - 1))

\* label scan: the loop over the bytes from pos on; out is the text so far
scanStr(buf, pos, out) ==
    IF pos > Len(buf) THEN ErrTok
    ELSE IF buf[pos] = DQuote THEN StrTok(out)
    ELSE IF buf[pos] = BSlash THEN scanEscape(buf, pos + 1, out)
    ELSE IF buf[pos] >= RuneSelf
    THEN scanRune(buf, pos, out, LeadingOnes(buf[pos]))
    ELSE scanStr(buf, pos + 1, Append(out, buf[pos]))

\* the bytes the literals are made of: quote, backslash, slash, the letters
\* a, n and u, a continuation byte of each quarter, the lead bytes of two,
\* three and four byte encodings, the lead byte of the surrogates, and two
\* bytes that start no encoding
ScanBytes == {34, 92, 47, 97, 110, 117, 128, 169, 195, 226, 237, 240, 248, 192}
MaxBytes == 4

RECURSIVE SeqsUpTo(_, _)
SeqsUpTo(A, n) ==
    IF n = 0 THEN {<<>>}
    ELSE SeqsUpTo(A, n - 1)
         \cup {Append(s, a) : s \in {x \in SeqsUpTo(A, n - 1) : Len(x) = n - 1},
                              a \in A}

InitScan ==
    /\ sbuf \in SeqsUpTo(ScanBytes, MaxBytes)
    /\ stok = [t |-> "none", s |-> <<>>]
    /\ mt = <<>>
    /\ mret = "none"
    /\ wdoc = 0
    /\ wfun = <<>>
    /\ wpc = "idle"
    /\ wret = <<>>
    /\ tc = [kind |-> "none"]
    /\ input = <<>>
    /\ cpc = "idle"
    /\ dres = [st |-> "none", v |-> <<>>]
    /\ output = <<>>
    /\ lin = <<>>
    /\ lsc = <<>>
    /\ ltoks = <<>>
    /\ lpeek = <<>>
    /\ mm = <<>>
    /\ mset = <<>>
    /\ mop = <<>>
    /\ mn = 0
    /\ aheap = <<>>
    /\ arecv = <<>>
    /\ aview = <<>>
    /\ aret = <<>>
    /\ rop = <<>>
    /\ rpc = "idle"
    /\ rpipe = <<>>
    /\ rtool = <<>>
    /\ rcopy = <<>>
    /\ rres = <<>>

\* tok := p.next() at the opening quote of the literal
DoScan ==
    /\ stok = [t |-> "none", s |-> <<>>]
    /\ stok' = scanStr(sbuf, 1, <<>>)
    /\ UNCHANGED <<sbuf, mt, mret, wdoc, wfun, wpc, wret, tc, input, cpc, dres,
                   output, lin, lsc, ltoks, lpeek, mm, mset, mop, mn, aheap,
                   arecv, aview, aret, rop, rpc, rpipe, rtool, rcopy, rres>>

NextScan == DoScan

SpecScan == InitScan /\ [][NextScan]_vars

\* the literal: the bytes up to the first quote that no backslash escapes,
\* as far as the scanner got
RECURSIVE LiteralEnd(_, _)
LiteralEnd(buf, pos) ==
    IF pos > Len(buf) THEN 0
    ELSE IF buf[pos] = DQuote THEN pos
    ELSE IF buf[pos] = BSlash THEN LiteralEnd(buf, pos + 2)
    ELSE LiteralEnd(buf, pos + 1)

\* the scalar value three or four bytes stand for
Scalar3(a, b, c) == (a - 224) * 4096 + (b - 128) * 64 + (c - 128)
Scalar4(a, b, c, d) ==
    (a - 240) * 262144 + (b - 128) * 4096 + (c - 128) * 64 + (d - 128)

\* the length of the well-formed UTF-8 sequence s holds at i (0 for none):
\* the lead byte announces the length, continuation bytes follow, and the
\* value is a scalar value in its shortest encoding
WellFormedAt(s, i) ==
    IF s[i] < 128 THEN 1
    ELSE IF LeadingOnes(s[i]) = 2
    THEN IF i + 1 <= Len(s) /\ IsCont(s[i + 1])
            /\ (s[i] - 192) * 64 + (s[i + 1] - 128) >= 128
         THEN 2 ELSE 0
    ELSE IF LeadingOnes(s[i]) = 3
    THEN IF i + 2 <= Len(s) /\ IsCont(s[i + 1]) /\ IsCont(s[i + 2])
            /\ Scalar3(s[i], s[i + 1], s[i + 2]) >= 2048
            /\ ~(Scalar3(s[i], s[i + 1], s[i + 2]) \in 55296..57343)
         THEN 3 ELSE 0
    ELSE IF LeadingOnes(s[i]) = 4
    THEN IF i + 3 <= Len(s) /\ IsCont(s[i + 1]) /\ IsCont(s[i + 2])
            /\ IsCont(s[i + 3])
            /\ Scalar4(s[i], s[i + 1], s[i + 2], s[i + 3]) >= 65536
            /\ Scalar4(s[i], s[i + 1], s[i + 2], s[i + 3]) <= 1114111
         THEN 4 ELSE 0
    ELSE 0

RECURSIVE WellFormed(_, _)
WellFormed(s, i) ==
    IF i > Len(s) THEN TRUE
    ELSE IF WellFormedAt(s, i) = 0 THEN FALSE
    ELSE WellFormed(s, i + WellFormedAt(s, i))

\* C20: the scanner returns a string token only for a literal in which every
\* byte from 0x80 on belongs to a well-formed UTF-8 sequence; a stray
\* continuation byte, a truncated sequence, an invalid lead byte or wrong
\* continuation bytes give an error token.
C20_Utf8Validated ==
    (stok.t = "str") => WellFormed(stok.s, 1)

\* the escapes at the scanner: a literal is a string token exactly when it
\* is closed and every backslash in it is followed by one of the bytes
\* " \ / b f n r t (and its bytes from 0x80 on pass the scanner)
RECURSIVE EscapesAccepted(_, _)
EscapesAccepted(buf, pos) ==
    IF pos > Len(buf) THEN FALSE
    ELSE IF buf[pos] = DQuote THEN TRUE
    ELSE IF buf[pos] = BSlash
    THEN /\ pos + 1 <= Len(buf)
         /\ buf[pos + 1] \in {34, 92, 47, 98, 102, 110, 114, 116}
         /\ EscapesAccepted(buf, pos + 2)
    ELSE EscapesAccepted(buf, pos + 1)
ScannerEscapes ==
    (stok.t # "none" /\ \A i \in 1..Len(sbuf) : sbuf[i] < 128)
    => (stok.t = "str" <=> EscapesAccepted(sbuf, 1))


(***************************************************************************)
(* The scanner on bytes, with its buffer and its reader (scan.go).  A       *)
(* scanner is a record: buf, sb, err, off, pos, str, num and intnum are the *)
(* fields of the struct (pos and str count from 0 as in the code, so the    *)
(* byte p.buf[p.pos] is buf[pos + 1]); cap is cap(p.buf); rest is what the  *)
(* reader p.r has not handed over yet and chunk the most one Read returns;  *)
(* eoff is the offset the message in err carries; ok and tok hold what the  *)
(* last ensure, and the last next or peek, returned.                        *)
(***************************************************************************)
BufCap == 6

Min(a, b) == IF a < b THEN a ELSE b

NoNum == [neg |-> FALSE, mag |-> <<>>, text |-> <<>>]

\* p.init(r): an empty buffer of the given capacity on a reader
init(in, cap, chunk) ==
    [buf |-> <<>>, sb |-> <<>>, err |-> "nil", eoff |-> -1, off |-> 0,
     pos |-> 0, str |-> 0, num |-> NoNum, intnum |-> FALSE,
     rest |-> in, chunk |-> chunk, cap |-> cap, ok |-> TRUE, tok |-> "none"]

\* return tok / p.err = fmt.Errorf("... at %d", at); return tokErr
ret(p, t) == [p EXCEPT !.tok = t]
fail(p, kind, at) == [p EXCEPT !.err = kind, !.eoff = at, !.tok = "err"]
\* an index or a slice bound outside the buffer: the run-time panics
outOfRange(p) == [p EXCEPT !.tok = "panic"]

\* n, err := p.r.Read(p.buf[bs:cap(p.buf)]); p.buf = p.buf[:bs+n]; the
\* reader returns io.EOF, with no bytes, once it has handed over everything
Read(p, n) ==
    [p EXCEPT !.buf = @ \o SubSeq(p.rest, 1, n),
              !.rest = SubSeq(@, n + 1, Len(@)),
              !.err = IF Len(p.rest) = 0 THEN "EOF" ELSE @]

\* the three ways ensure makes room before it reads
shift(p) ==
    IF p.str > 0
    THEN [p EXCEPT !.buf = SubSeq(@, p.str + 1, Len(@)),
                   !.pos = @ - p.str, !.off = @ + p.str, !.str = 0]
    ELSE IF p.str = 0
    THEN [p EXCEPT !.sb = @ \o SubSeq(p.buf, 1, p.pos),
                   !.off = @ + p.pos,
                   !.buf = SubSeq(@, 1, Len(@) - p.pos), !.pos = 0]
    ELSE [p EXCEPT !.off = @ + p.pos,
                   !.buf = SubSeq(@, 1, Len(@) - p.pos), !.pos = 0]

filled(p, size) == [p EXCEPT !.ok = (Len(p.buf) - p.pos >= size)]

\* p.ensure(size)
ensure(p, size) ==
    IF Len(p.buf) - p.pos >= size THEN [p EXCEPT !.ok = TRUE]
    ELSE filled(Read(shift(p),
                     Min(Min(p.cap - Len(shift(p).buf), p.chunk),
                         Len(p.rest))),
                size)

\* p.spillstr()
spillstr(p) ==
    IF p.str < 0 \/ p.str > p.pos \/ p.pos > Len(p.buf) THEN outOfRange(p)
    ELSE [p EXCEPT !.sb = @ \o SubSeq(p.buf, p.str + 1, p.pos), !.str = -1]

IsSpace(c) == c \in {32, 9, 10, 13}
IsDigit(c) == c >= 48 /\ c <= 57

RECURSIVE skipws(_)
\* the body of the loop of skipws, after p.ensure(1)
skipAt(p) ==
    IF ~p.ok THEN p
    ELSE IF IsSpace(p.buf[p.pos + 1]) THEN skipws([p EXCEPT !.pos = @ + 1])
    ELSE p

\* p.skipws()
skipws(p) == skipAt(ensure(p, 1))

\* string(p.buf[p.pos:p.pos+n]) == w after p.ensure(n)
atWord(p, w) ==
    p.ok /\ SubSeq(p.buf, p.pos + 1, p.pos + Len(w)) = w

NullWord == <<110, 117, 108, 108>>
TrueWord == <<116, 114, 117, 101>>
FalseWord == <<102, 97, 108, 115, 101>>

\* the punctuation cases of the two switches
punct(c) ==
    CASE c = 44 -> ","
      [] c = 58 -> ":"
      [] c = 91 -> "["
      [] c = 93 -> "]"
      [] c = 123 -> "{"
      [] c = 125 -> "}"
      [] OTHER -> ""

\* the cases 'n', 't' and 'f' of peek, after p.ensure(n)
peekWord(p, w, t) == ret(p, IF atWord(p, w) THEN t ELSE "err")

\* the switch of peek on the byte at p.pos
peekSwitch(p, c) ==
    IF punct(c) # "" THEN ret(p, punct(c))
    ELSE IF c = 34 THEN ret(p, "str")
    ELSE IF c = 110 THEN peekWord(ensure(p, 4), NullWord, "null")
    ELSE IF c = 116 THEN peekWord(ensure(p, 4), TrueWord, "true")
    ELSE IF c = 102 THEN peekWord(ensure(p, 5), FalseWord, "false")
    ELSE IF c = 45 \/ IsDigit(c) THEN ret(p, "num")
    ELSE ret(p, "err")

peekAt(p) ==
    IF ~p.ok THEN ret(p, "EOF")
    ELSE IF p.pos >= Len(p.buf) THEN outOfRange(p)
    ELSE peekSwitch(p, p.buf[p.pos + 1])

\* p.peek()
peekTok(p) == peekAt(ensure(skipws(p), 1))

\* keyword without "p.pos += len(w)"
keywordStays(p, w, t) ==
    IF atWord(p, w) THEN ret(p, t)
    ELSE fail(p, "char", p.off + p.pos)

\* the cases 'n', 't' and 'f' of next, after p.str = p.pos and p.ensure(n)
keyword(p, w, t) ==
    IF atWord(p, w) THEN ret([p EXCEPT !.pos = @ + Len(w)], t)
    ELSE fail(p, "char", p.off + p.pos)

(***************************************************************************)
(* parseNum.  A uint64 is five limbs in base 10000, the most significant    *)
(* first; the first limb is not reduced, so that a product that does not    *)
(* fit in 64 bits is still a value that can be compared with 2^64 - 1.      *)
(***************************************************************************)
Zero64 == <<0, 0, 0, 0, 0>>
MaxUint64 == <<1844, 6744, 737, 955, 1615>>
MaxInt64 == <<922, 3372, 368, 5477, 5807>>
\* math.MaxInt64 + 1
MinInt64Mag == <<922, 3372, 368, 5477, 5808>>

\* x * m + d on limbs (m and d below 10000)
MulAdd(x, m, d) ==
    <<x[1] * m + (x[2] * m + (x[3] * m + (x[4] * m + (x[5] * m + d) \div 10000) \div 10000) \div 10000) \div 10000,
      (x[2] * m + (x[3] * m + (x[4] * m + (x[5] * m + d) \div 10000) \div 10000) \div 10000) % 10000,
      (x[3] * m + (x[4] * m + (x[5] * m + d) \div 10000) \div 10000) % 10000,
      (x[4] * m + (x[5] * m + d) \div 10000) % 10000,
      (x[5] * m + d) % 10000>>

RECURSIVE GreaterFrom(_, _, _)
GreaterFrom(x, y, i) ==
    IF i > 5 THEN FALSE
    ELSE IF x[i] # y[i] THEN x[i] > y[i]
    ELSE GreaterFrom(x, y, i + 1)
\* x > y on limbs
Greater(x, y) == GreaterFrom(x, y, 1)

\* the locals of parseNum: sign, num, flt and off
NumLocals(p) == [sign |-> 0, num |-> Zero64, flt |-> FALSE, off |-> p.off]

\* the digit branch of the first loop: bits.Mul64(num, 10), then
\* bits.Add64(l, c - '0', 0); a carry out of 64 bits makes the literal a float
accumulate(l, c) ==
    IF l.flt THEN l
    ELSE IF Greater(MulAdd(l.num, 10, 0), MaxUint64) THEN [l EXCEPT !.flt = TRUE]
    ELSE IF Greater(MulAdd(l.num, 10, c - 48), MaxUint64) THEN [l EXCEPT !.flt = TRUE]
    ELSE [l EXCEPT !.num = MulAdd(l.num, 10, c - 48)]

\* the text of a float literal: its digits before and after the point and
\* its exponent (capped at four digits)
RECURSIVE DigitsFrom(_, _)
DigitsFrom(t, i) ==
    IF i > Len(t) \/ ~IsDigit(t[i]) THEN <<>>
    ELSE <<t[i] - 48>> \o DigitsFrom(t, i + 1)
RECURSIVE Stripped(_)
Stripped(d) == IF d # <<>> /\ d[1] = 0 THEN Stripped(Tail(d)) ELSE d
RECURSIVE ValueOfDigits(_, _)
ValueOfDigits(d, acc) ==
    IF d = <<>> THEN acc
    ELSE IF acc > 999 THEN 9999
    ELSE ValueOfDigits(Tail(d), acc * 10 + d[1])
IntStart(t) == IF t[1] = 45 THEN 2 ELSE 1
IntDigits(t) == DigitsFrom(t, IntStart(t))
FracStart(t) == IntStart(t) + Len(IntDigits(t)) + 1
FracDigits(t) ==
    IF FracStart(t) - 1 <= Len(t) /\ t[FracStart(t) - 1] = 46
    THEN DigitsFrom(t, FracStart(t)) ELSE <<>>
ExpAt(t) ==
    IF FracDigits(t) = <<>> THEN FracStart(t) - 1
    ELSE FracStart(t) + Len(FracDigits(t))
ExpOf(t) ==
    IF ExpAt(t) > Len(t) THEN 0
    ELSE IF t[ExpAt(t) + 1] = 45
    THEN 0 - ValueOfDigits(Stripped(DigitsFrom(t, ExpAt(t) + 2)), 0)
    ELSE IF t[ExpAt(t) + 1] = 43
    THEN ValueOfDigits(Stripped(DigitsFrom(t, ExpAt(t) + 2)), 0)
    ELSE ValueOfDigits(Stripped(DigitsFrom(t, ExpAt(t) + 1)), 0)
Mantissa(t) == Stripped(IntDigits(t) \o FracDigits(t))
\* the value is 0.d1d2... * 10^DecExp with d1 the first digit of Mantissa
DecExp(t) ==
    Len(IntDigits(t)) - (Len(IntDigits(t) \o FracDigits(t)) - Len(Mantissa(t)))
    + ExpOf(t)

\* the first digits of the least value that rounds to infinity,
\* 0.17976931348623158079... * 10^309
HalfwayToInf == <<1, 7, 9, 7, 6, 9, 3, 1, 3, 4, 8, 6, 2, 3, 1, 5, 8, 0, 7, 9>>
RECURSIVE DigitsAtLeast(_, _, _)
DigitsAtLeast(d, h, i) ==
    IF i > Len(h) THEN TRUE
    ELSE IF i > Len(d) THEN h[i] = 0 /\ DigitsAtLeast(d, h, i + 1)
    ELSE IF d[i] # h[i] THEN d[i] > h[i]
    ELSE DigitsAtLeast(d, h, i + 1)

\* strconv.ParseFloat(text, 64) returns an error (ErrRange): the text is a
\* literal the loops of parseNum have accepted, so the only error left is a
\* value that rounds to infinity
ParseFloatErr(t) ==
    /\ Mantissa(t) # <<>>
    /\ \/ DecExp(t) > 309
       \/ DecExp(t) = 309 /\ DigitsAtLeast(Mantissa(t), HalfwayToInf, 1)

\* int64(math.Float64bits(f)) kept as the literal f was parsed from
FloatOf(text) == [neg |-> FALSE, mag |-> <<>>, text |-> text]
\* p.num = int64(num), -int64(num) (two's complement: -int64(2^63) is -2^63)
IntOf(neg, mag) == [neg |-> neg /\ mag # Zero64, mag |-> mag, text |-> <<>>]
\* float64(num) with the sign given, for a num that is no int64
FloatOfNum(neg, mag) == [neg |-> neg, mag |-> mag, text |-> <<>>]

\* the else branch of done: the literal is parsed again by strconv
numFloat(p, l, text) ==
    IF ParseFloatErr(text) THEN fail(p, "num", l.off)
    ELSE ret([p EXCEPT !.num = FloatOf(text), !.intnum = FALSE], "num")

\* the tests of label done: num > math.MaxInt64 + 1 under a minus sign,
\* num > math.MaxInt64 without
fitsInt64Same(l) == ~Greater(l.num, MinInt64Mag)
fitsInt64(l) ==
    IF l.sign < 0 THEN ~Greater(l.num, MinInt64Mag)
    ELSE ~Greater(l.num, MaxInt64)

\* label done
numDone(p, l) ==
    IF ~l.flt
    THEN IF fitsInt64(l)
         THEN ret([p EXCEPT !.num = IntOf(l.sign < 0, l.num), !.intnum = TRUE], "num")
         ELSE ret([p EXCEPT !.num = FloatOfNum(l.sign < 0, l.num), !.intnum = FALSE], "num")
    ELSE IF p.sb # <<>>
    THEN IF spillstr(p).tok = "panic" THEN spillstr(p)
         ELSE numFloat(spillstr(p), l, spillstr(p).sb)
    ELSE numFloat(p, l, SubSeq(p.buf, p.str + 1, p.pos))

RECURSIVE numExpDigits(_, _)
\* the loop of label exp, at a digit
numExpNext(p, l) ==
    IF ~p.ok THEN numDone(p, l)
    ELSE IF IsDigit(p.buf[p.pos + 1]) THEN numExpDigits(p, l)
    ELSE numDone(p, l)
numExpDigits(p, l) == numExpNext(ensure([p EXCEPT !.pos = @ + 1], 1), l)

\* label exp after the sign: c must be a digit
numExpFirst(p, l) ==
    IF ~p.ok THEN fail(p, "num", l.off)
    ELSE IF ~IsDigit(p.buf[p.pos + 1]) THEN fail(p, "num", l.off)
    ELSE numExpDigits(p, l)

\* label exp, after p.ensure(1)
numExpAt(p, l) ==
    IF ~p.ok THEN fail(p, "num", l.off)
    ELSE IF p.buf[p.pos + 1] \in {43, 45}
    THEN numExpFirst(ensure([p EXCEPT !.pos = @ + 1], 1), l)
    ELSE numExpFirst(p, l)
numExp(p, l) == numExpAt(ensure(p, 1), l)

RECURSIVE numFracDigits(_, _)
\* the loop of label frac, after p.ensure(1)
numFracNext(p, l) ==
    IF ~p.ok THEN numDone(p, l)
    ELSE IF IsDigit(p.buf[p.pos + 1]) THEN numFracDigits(p, l)
    ELSE IF p.buf[p.pos + 1] \in {101, 69} THEN numExp([p EXCEPT !.pos = @ + 1], l)
    ELSE numDone(p, l)
numFracDigits(p, l) == numFracNext(ensure([p EXCEPT !.pos = @ + 1], 1), l)

\* label frac, after p.ensure(1): a digit must follow the point
numFracAt(p, l) ==
    IF ~p.ok THEN fail(p, "num", l.off)
    ELSE IF ~IsDigit(p.buf[p.pos + 1]) THEN fail(p, "num", l.off)
    ELSE numFracDigits(p, l)
numFrac(p, l) == numFracAt(ensure(p, 1), l)

RECURSIVE numInt(_, _)
\* the first loop, after p.ensure(1)
numIntAt(p, l) ==
    IF ~p.ok THEN numDone(p, l)
    ELSE IF IsDigit(p.buf[p.pos + 1])
    THEN numInt([p EXCEPT !.pos = @ + 1], accumulate(l, p.buf[p.pos + 1]))
    ELSE IF p.buf[p.pos + 1] = 46
    THEN numFrac([p EXCEPT !.pos = @ + 1], [l EXCEPT !.flt = TRUE])
    ELSE IF p.buf[p.pos + 1] \in {101, 69}
    THEN numExp([p EXCEPT !.pos = @ + 1], [l EXCEPT !.flt = TRUE])
    ELSE numDone(p, l)
numInt(p, l) == numIntAt(ensure(p, 1), l)

\* the branch c == '0', after p.pos++ and p.ensure(1): c is the next byte,
\* 0 at the end of the input
numZero(p, c, l) ==
    IF IsDigit(c) THEN fail(p, "num", l.off)
    ELSE IF c = 46 THEN numFrac([p EXCEPT !.pos = @ + 1], [l EXCEPT !.flt = TRUE])
    ELSE IF c \in {101, 69}
    THEN numExp([p EXCEPT !.pos = @ + 1], [l EXCEPT !.flt = TRUE])
    ELSE IF l.sign < 0
    THEN ret([p EXCEPT !.num = FloatOf(<<45, 48>>), !.intnum = FALSE], "num")
    ELSE ret([p EXCEPT !.num = IntOf(FALSE, Zero64), !.intnum = TRUE], "num")
numZeroAt(p, l) ==
    numZero(p, IF p.ok THEN p.buf[p.pos + 1] ELSE 0, l)

\* from "if c == '0'" on: c is the first digit, at p.pos
numFirst(p, c, l) ==
    IF c = 48 THEN numZeroAt(ensure([p EXCEPT !.pos = @ + 1], 1), l)
    ELSE numInt([p EXCEPT !.pos = @ + 1], [l EXCEPT !.num = MulAdd(Zero64, 1, c - 48)])

\* the branch c == '-', after p.pos++ and p.ensure(1)
numSigned(p, l) ==
    IF ~p.ok THEN fail(p, "eof", l.off)
    ELSE IF ~IsDigit(p.buf[p.pos + 1]) THEN fail(p, "num", l.off)
    ELSE numFirst(p, p.buf[p.pos + 1], [l EXCEPT !.sign = -1])

\* p.parseNum(c)
parseNum(p, c) ==
    IF c = 45
    THEN numSigned(ensure([p EXCEPT !.sb = <<>>, !.str = p.pos, !.pos = @ + 1], 1),
                   NumLocals(p))
    ELSE numFirst([p EXCEPT !.sb = <<>>, !.str = p.pos], c, NumLocals(p))

(***************************************************************************)
(* parseStr and next on the buffer                                          *)
(***************************************************************************)
RECURSIVE strLoop(_)
\* label escape, after p.ensure(1); "goto scan" sets p.str = p.pos
strEscape(p) ==
    IF ~p.ok THEN fail(p, "eof", p.off + p.pos)
    ELSE IF unescapeByte(p.buf[p.pos + 1]) = -1
    THEN fail(p, "esc", p.off + p.pos)
    ELSE strLoop([p EXCEPT !.sb = Append(@, unescapeByte(p.buf[p.pos + 1])),
                           !.pos = @ + 1, !.str = p.pos + 1])

\* the branch c >= utf8.RuneSelf once p.ensure(b) has run
strRuneAt(p, b) ==
    IF ~p.ok THEN fail(p, "eof", p.off + p.pos)
    ELSE IF DecodeRuneSize(SubSeq(p.buf, p.pos + 1, Len(p.buf))) # b
    THEN fail(p, "utf8", p.off + p.pos)
    ELSE strLoop([p EXCEPT !.pos = @ + b])

\* the branch c >= utf8.RuneSelf; b is bits.LeadingZeros8(^c)
strRune(p, b) ==
    IF b > 4 THEN fail(p, "utf8", p.off + p.pos)
    ELSE IF Len(p.buf) - p.pos < b
    THEN IF spillstr(p).tok = "panic" THEN spillstr(p)
         ELSE strRuneAt(ensure([spillstr(p) EXCEPT !.str = p.pos], b), b)
    ELSE strRuneAt(ensure(p, b), b)

\* the closing quote
strClose(p) ==
    IF p.tok = "panic" THEN p ELSE ret([p EXCEPT !.pos = @ + 1], "str")

\* the backslash: p.spillstr(); p.pos++; goto escape
strBackslash(p) ==
    IF p.tok = "panic" THEN p
    ELSE strEscape(ensure([p EXCEPT !.pos = @ + 1], 1))

\* the body of the loop of label scan, after p.ensure(1)
strAt(p) ==
    IF ~p.ok THEN fail(p, "eof", p.off + p.pos)
    ELSE IF p.buf[p.pos + 1] = DQuote
    THEN strClose(IF p.sb # <<>> THEN spillstr(p) ELSE p)
    ELSE IF p.buf[p.pos + 1] = BSlash THEN strBackslash(spillstr(p))
    ELSE IF p.buf[p.pos + 1] >= RuneSelf
    THEN strRune(p, LeadingOnes(p.buf[p.pos + 1]))
    ELSE strLoop([p EXCEPT !.pos = @ + 1])
strLoop(p) == strAt(ensure(p, 1))

\* p.parseStr(), p.pos at the byte after the opening quote
parseStrBuf(p) == strLoop([p EXCEPT !.sb = <<>>, !.str = p.pos])

\* p.string() after a string token
stringOf(p) ==
    IF p.str >= 0 THEN SubSeq(p.buf, p.str + 1, p.pos - 1) ELSE p.sb

RECURSIVE nextScan(_)
\* the switch of next on the byte c at p.pos
nextSwitch(p, c) ==
    IF punct(c) # "" THEN ret([p EXCEPT !.pos = @ + 1], punct(c))
    ELSE IF c = 110 THEN keyword(ensure([p EXCEPT !.str = p.pos], 4), NullWord, "null")
    ELSE IF c = 116 THEN keyword(ensure([p EXCEPT !.str = p.pos], 4), TrueWord, "true")
    ELSE IF c = 102 THEN keyword(ensure([p EXCEPT !.str = p.pos], 5), FalseWord, "false")
    ELSE IF c = 45 \/ IsDigit(c) THEN parseNum(p, c)
    ELSE IF c = DQuote THEN parseStrBuf([p EXCEPT !.pos = @ + 1])
    ELSE IF IsSpace(c) THEN nextScan([p EXCEPT !.pos = @ + 1])
    ELSE fail(p, "char", p.off + p.pos)

nextAt(p) ==
    IF ~p.ok THEN ret(p, "EOF")
    ELSE IF p.pos >= Len(p.buf) THEN outOfRange(p)
    ELSE nextSwitch(p, p.buf[p.pos + 1])

\* label scan of next
nextScan(p) == nextAt(ensure(p, 1))

\* p.next()
nextTok(p) == nextScan([p EXCEPT !.str = -1])

\* the bytes of the input that are still to be scanned: those the reader
\* holds and those behind p.pos in the buffer
unread(p) == Len(p.rest) + Len(p.buf) - p.pos

\* what a call of next delivers: the token, and with it the text of a
\* string, the value of a number, or the offset of an error; left counts
\* the bytes still to be scanned after the call
Delivered(p) ==
    [t |-> p.tok, left |-> unread(p),
     s |-> IF p.tok = "str" THEN stringOf(p) ELSE <<>>,
     num |-> IF p.tok = "num" THEN p.num ELSE NoNum,
     int |-> p.tok = "num" /\ p.intnum,
     at |-> IF p.tok = "err" THEN p.eoff ELSE -1,
     err |-> IF p.tok = "err" THEN p.err ELSE "nil"]

(***************************************************************************)
(* The inputs of the scanner, as bytes: number literals alone, documents     *)
(* and strings whose tokens fall on every side of a refill of a buffer of   *)
(* BufCap bytes, and inputs with a lexical error before and after the first *)
(* refill.                                                                  *)
(***************************************************************************)
\* literals of digits: 0 -0 7 -7 10 123 9223372036854775807,
\* the values 2^63 - 1, 2^63, -2^63, -2^63 - 1, 2^64 - 1, 2^64 and a literal of 21 digits
IntLits ==
    { <<48>>,
      <<45, 48>>,
      <<55>>,
      <<45, 55>>,
      <<49, 48>>,
      <<49, 50, 51>>,
      <<57, 50, 50, 51, 51, 55, 50, 48, 51, 54, 56, 53, 52, 55, 55, 53, 56, 48, 55>>,
      <<57, 50, 50, 51, 51, 55, 50, 48, 51, 54, 56, 53, 52, 55, 55, 53, 56, 48, 56>>,
      <<45, 57, 50, 50, 51, 51, 55, 50, 48, 51, 54, 56, 53, 52, 55, 55, 53, 56, 48, 56>>,
      <<45, 57, 50, 50, 51, 51, 55, 50, 48, 51, 54, 56, 53, 52, 55, 55, 53, 56, 48, 57>>,
      <<49, 56, 52, 52, 54, 55, 52, 52, 48, 55, 51, 55, 48, 57, 53, 53, 49, 54, 49, 53>>,
      <<49, 56, 52, 52, 54, 55, 52, 52, 48, 55, 51, 55, 48, 57, 53, 53, 49, 54, 49, 54>>,
      <<49, 56, 52, 52, 54, 55, 52, 52, 48, 55, 51, 55, 48, 57, 53, 53, 49, 54, 49, 53, 48>>
    }
\* literals with a fraction or an exponent: 0.5 -0.5 1.25 1e5 1E5 1e+5 1e-5 0e0 -0.0 1.5e3
\* 1e308 1e309 1.7e308 1.8e308 -1e309 1e-400 0.0e999 17976931348623158e292 12345678.5
FloatLits ==
    { <<48, 46, 53>>,
      <<45, 48, 46, 53>>,
      <<49, 46, 50, 53>>,
      <<49, 101, 53>>,
      <<49, 69, 53>>,
      <<49, 101, 43, 53>>,
      <<49, 101, 45, 53>>,
      <<48, 101, 48>>,
      <<45, 48, 46, 48>>,
      <<49, 46, 53, 101, 51>>,
      <<49, 101, 51, 48, 56>>,
      <<49, 101, 51, 48, 57>>,
      <<49, 46, 55, 101, 51, 48, 56>>,
      <<49, 46, 56, 101, 51, 48, 56>>,
      <<45, 49, 101, 51, 48, 57>>,
      <<49, 101, 45, 52, 48, 48>>,
      <<48, 46, 48, 101, 57, 57, 57>>,
      <<49, 55, 57, 55, 54, 57, 51, 49, 51, 52, 56, 54, 50, 51, 49, 53, 56, 101, 50, 57, 50>>,
      <<49, 50, 51, 52, 53, 54, 55, 56, 46, 53>>
    }
\* what is no literal: 01 - -x 1. 1e 1e+ 1.e5 00 -01 1.5e+x
BadNums ==
    { <<48, 49>>,
      <<45>>,
      <<45, 120>>,
      <<49, 46>>,
      <<49, 101>>,
      <<49, 101, 43>>,
      <<49, 46, 101, 53>>,
      <<48, 48>>,
      <<45, 48, 49>>,
      <<49, 46, 53, 101, 43, 120>>
    }
\* documents, strings, and inputs with an error
LexDocs ==
    { <<91, 49, 44, 50, 93>>,
      <<32, 91, 110, 117, 108, 108, 44, 116, 114, 117, 101, 44, 102, 97, 108, 115, 101, 93>>,
      <<123, 34, 116, 34, 58, 34, 83, 116, 114, 34, 44, 34, 99, 34, 58, 34, 97, 34, 125>>,
      <<91, 91, 93, 44, 110, 117, 108, 108, 93>>,
      <<91, 123, 125, 44, 116, 114, 117, 101, 93>>,
      <<91, 91, 44, 102, 97, 108, 115, 101, 93>>,
      <<91, 49, 44, 32, 110, 117, 108, 108, 93>>,
      <<91, 49, 44, 45, 48, 32, 44, 50, 46, 53, 93>>,
      <<32, 32, 10, 91, 32, 34, 97, 34, 32, 44, 32, 34, 98, 34, 32, 93>>,
      <<34, 195, 169, 34>>,
      <<32, 34, 195, 169, 195, 169, 34>>,
      <<34, 97, 92, 110, 98, 34>>,
      <<34, 97, 92, 34, 98, 92, 92, 34>>,
      <<34, 240, 159, 146, 169, 34>>,
      <<32, 32, 34, 240, 159, 146, 169, 34>>,
      <<34, 97, 98, 99, 100, 101, 102, 103, 104, 34>>,
      <<91, 34, 97, 98, 99, 100, 101, 102, 103, 104, 34, 44, 34, 105, 34, 93>>,
      <<34, 97, 98, 99, 226, 130, 172, 100, 34>>,
      <<34, 34>>,
      <<32, 34, 34>>,
      <<110, 117, 108>>,
      <<110, 117, 108, 120>>,
      <<116, 114, 117>>,
      <<102, 97, 108, 115>>,
      <<120>>,
      <<91, 49, 44, 120>>,
      <<91, 45, 120>>,
      <<91, 49, 44, 50, 44, 51, 44, 45, 120, 93>>,
      <<91, 116, 114, 117, 101, 44, 110, 117, 108, 120, 93>>,
      <<34, 97, 98, 92, 113, 99, 34>>,
      <<34, 97, 98, 99, 100, 101, 102, 103, 92, 113, 34>>,
      <<34, 97, 98, 99>>,
      <<34, 97, 98, 99, 100, 101, 102, 103>>,
      <<34, 97, 98, 99, 100, 101, 102, 92>>,
      <<91, 49, 44, 34, 97, 98>>,
      <<34, 128, 34>>,
      <<34, 97, 98, 99, 100, 101, 102, 103, 128, 128, 34>>,
      <<34, 195, 34>>,
      <<34, 97, 98, 99, 100, 101, 102, 226, 130, 34>>,
      <<34, 97, 98, 99, 100, 101, 102, 103, 248, 34>>,
      <<34, 226, 40, 161, 34>>,
      <<91, 49, 50, 51, 52, 53, 54, 55, 56, 46, 53, 101, 93>>,
      <<91, 49, 50, 51, 52, 53, 54, 55, 46, 93>>,
      <<>>
    }
LexInputs == IntLits \cup FloatLits \cup BadNums \cup LexDocs

\* the most bytes one Read returns: a reader that hands over one, two or
\* three bytes at a time, and one that fills the slice it is given
Chunks == {1, 2, 3, BufCap}
MaxPeeks == 2

InitLex ==
    /\ lin \in LexInputs
    /\ lsc \in {init(lin, BufCap, k) : k \in Chunks}
    /\ ltoks = <<>>
    /\ lpeek = <<>>
    /\ tc = [kind |-> "none"]
    /\ input = <<>>
    /\ cpc = "idle"
    /\ dres = [st |-> "none", v |-> <<>>]
    /\ output = <<>>
    /\ wdoc = 0
    /\ wfun = <<>>
    /\ wpc = "idle"
    /\ wret = <<>>
    /\ mt = <<>>
    /\ mret = "none"
    /\ sbuf = <<>>
    /\ stok = [t |-> "none", s |-> <<>>]
    /\ mm = <<>>
    /\ mset = <<>>
    /\ mop = <<>>
    /\ mn = 0
    /\ aheap = <<>>
    /\ arecv = <<>>
    /\ aview = <<>>
    /\ aret = <<>>
    /\ rop = <<>>
    /\ rpc = "idle"
    /\ rpipe = <<>>
    /\ rtool = <<>>
    /\ rcopy = <<>>
    /\ rres = <<>>

\* the caller stops at tokEOF and at tokErr
LexDone == ltoks # <<>> /\ ltoks[Len(ltoks)].t \in {"EOF", "err", "panic"}

\* tok := p.next()
DoNext ==
    /\ ~LexDone
    /\ lsc' = nextTok(lsc)
    /\ ltoks' = Append(ltoks, Delivered(lsc'))
    /\ lpeek' = <<>>
    /\ UNCHANGED <<tc, input, cpc, dres, output, wdoc, wfun, wpc, wret, mt,
                   mret, sbuf, stok, lin, mm, mset, mop, mn, aheap, arecv,
                   aview, aret, rop, rpc, rpipe, rtool, rcopy, rres>>

\* tok := p.peek()
DoPeek ==
    /\ ~LexDone
    /\ Len(lpeek) < MaxPeeks
    /\ lsc' = peekTok(lsc)
    /\ lpeek' = Append(lpeek, lsc'.tok)
    /\ UNCHANGED <<tc, input, cpc, dres, output, wdoc, wfun, wpc, wret, mt,
                   mret, sbuf, stok, lin, ltoks, mm, mset, mop, mn, aheap,
                   arecv, aview, aret, rop, rpc, rpipe, rtool, rcopy, rres>>

NextLex == DoNext \/ DoPeek

SpecLex == InitLex /\ [][NextLex]_vars

(***************************************************************************)
(* Number literals                                                          *)
(***************************************************************************)
\* the digits of a literal of IntLits, and their value on limbs, read off
\* in groups of four digits from the right
LitDigits(t) == DigitsFrom(t, IntStart(t))
Pad20(d) == [i \in 1..20 |-> IF i <= 20 - Len(d) THEN 0 ELSE d[i - (20 - Len(d))]]
LimbsOf(d) ==
    [k \in 1..5 |-> Pad20(d)[4 * k - 3] * 1000 + Pad20(d)[4 * k - 2] * 100
                    + Pad20(d)[4 * k - 1] * 10 + Pad20(d)[4 * k]]
IsNeg(t) == t[1] = 45
\* the value of the literal lies in [-2^63, 2^63 - 1]
InInt64(t) ==
    /\ Len(LitDigits(t)) <= 19
    /\ IF IsNeg(t) THEN ~Greater(LimbsOf(LitDigits(t)), MinInt64Mag)
       ELSE ~Greater(LimbsOf(LitDigits(t)), MaxInt64)
\* the number token that stands for the exact value of the literal
ExactInt(t) ==
    [neg |-> IsNeg(t) /\ LimbsOf(LitDigits(t)) # Zero64,
     mag |-> LimbsOf(LitDigits(t)), text |-> <<>>]
NegZero == <<45, 48>>
\* the literals of FloatLits whose value is beyond the largest 64-bit float:
\* 1e309, 1.8e308 and -1e309
BeyondFloat64 ==
    { <<49, 101, 51, 48, 57>>, <<49, 46, 56, 101, 51, 48, 56>>,
      <<45, 49, 101, 51, 48, 57>> }

Payload(d) == [t |-> d.t, s |-> d.s, num |-> d.num, int |-> d.int]
Payloads(ds) == [i \in 1..Len(ds) |-> Payload(ds[i])]
Ends(t) == t \in {"EOF", "err", "panic"}

RECURSIVE tokensFrom(_, _)
\* what the calls of next deliver, up to the first tokEOF or tokErr and for
\* n calls at most
tokensAfter(p, n) ==
    IF Ends(p.tok) THEN <<Delivered(p)>>
    ELSE <<Delivered(p)>> \o tokensFrom(p, n - 1)
tokensFrom(p, n) == IF n = 0 THEN <<>> ELSE tokensAfter(nextTok(p), n)

\* the scanner on a buffer that takes the whole input with the first Read
inOnePiece(in) == init(in, Len(in) + 1, Len(in) + 1)
\* the tokens of each input scanned in one piece
OnePiece == [in \in LexInputs |-> Payloads(tokensFrom(inOnePiece(in), Len(in) + 1))]

IsPrefix(s, t) == Len(s) <= Len(t) /\ s = SubSeq(t, 1, Len(s))

\* C26: the tokens and payloads the scanner delivers do not depend on where
\* the boundaries of the buffer refills and of the reader's chunks fall: for
\* every input, buffer capacity and chunk size, the tokens delivered so far
\* are the first tokens of the input scanned in one piece.
C26_SameTokens == IsPrefix(Payloads(ltoks), OnePiece[lin])

\* calls of next alone, on a reader that fills the slice it is given,
\* deliver the tokens of the input in one piece whatever the refills cut
FullReadsSameTokens ==
    ltoks = <<>>
    => Payloads(tokensFrom(init(lin, BufCap, BufCap), Len(lin) + 1)) = OnePiece[lin]

\* the tokens for which peek has looked at the whole token
Certain == {",", ":", "[", "]", "{", "}", "null", "true", "false"}

\* C27: peek does not consume or alter unread input: after a call of peek,
\* next returns the token and payload it would have returned before the
\* call, and when peek reports a punctuation token or null, true or false,
\* next returns that token.
C27_PeekKeepsNext ==
    [][(lpeek' # <<>> /\ lpeek' # lpeek)
       => /\ Payload(Delivered(nextTok(lsc'))) = Payload(Delivered(nextTok(lsc)))
          /\ lsc'.tok \in Certain => nextTok(lsc').tok = lsc'.tok]_vars

\* peek keeps what next returns where it needs no more than the byte at
\* p.pos: before every token but null, true and false
PeekOfOneByteKeepsNext ==
    [][(lpeek' # <<>> /\ lpeek' # lpeek /\ ~Ends(nextTok(lsc).tok)
        /\ nextTok(lsc).tok \notin {"null", "true", "false"}
        /\ lsc'.tok \notin {"err", "panic"})
       => /\ Payload(Delivered(nextTok(lsc'))) = Payload(Delivered(nextTok(lsc)))
          /\ lsc'.tok \in Certain => nextTok(lsc').tok = lsc'.tok]_vars

\* a string token is in the buffer (stringInBuffer, which the decoder asks
\* of every tag and key) whatever the refills cut
StringsInBuffer ==
    (ltoks # <<>> /\ ltoks[Len(ltoks)].t = "str" /\ lpeek = <<>>) => lsc.str >= 0

(***************************************************************************)
(* Offsets of errors, and termination                                       *)
(***************************************************************************)
\* the offset in the input of the byte at p.pos: what the reader has handed
\* over less what is unread in the buffer
Consumed == Len(lin) - Len(lsc.rest) - (Len(lsc.buf) - lsc.pos)

LastTok == ltoks[Len(ltoks)]

\* C29: every lexical error reports the offset in the whole input of the
\* byte at which it was detected, also after the buffer has been refilled
\* or shifted: when next returns tokErr, the offset in p.err is the offset
\* of the byte at p.pos.
C29_ErrorOffset ==
    (ltoks # <<>> /\ lpeek = <<>> /\ LastTok.t = "err") => LastTok.at = Consumed

\* the errors that only next and parseStr report (unexpected character,
\* invalid escape, invalid UTF-8) carry the offset of the byte at p.pos
OtherErrorsAtOffset ==
    (ltoks # <<>> /\ lpeek = <<>> /\ LastTok.err \in {"char", "esc", "utf8"})
    => LastTok.at = Consumed

\* every index and slice bound the scanner uses lies in the buffer:
\* 0 <= p.pos <= len(p.buf) <= cap(p.buf), and p.str is -1 or at most p.pos
InBuffer(p) ==
    /\ p.pos >= 0 /\ p.pos <= Len(p.buf)
    /\ Len(p.buf) <= p.cap
    /\ p.str >= -1 /\ p.str <= p.pos

\* the bytes still to be scanned before the i-th call of next
LeftBefore(i) == IF i = 1 THEN Len(lin) ELSE ltoks[i - 1].left

\* C28: calling next repeatedly reaches tokEOF or tokErr after finitely many
\* calls: every call that returns another token consumes at least one byte
\* of the input, so there are at most len(input) + 1 calls, and no call
\* reads or slices outside the buffer.
C28_NextTerminates ==
    /\ \A i \in 1..Len(ltoks) :
          /\ ltoks[i].t # "panic"
          /\ ~Ends(ltoks[i].t) => ltoks[i].left < LeftBefore(i)
    /\ Len(ltoks) <= Len(lin) + 1
    /\ lsc.tok # "panic"
    /\ InBuffer(lsc)

\* the document {"t":"Str","c":"a"} has been scanned to tokEOF in ten calls
\* of next and over two refills of the buffer and more
C28_Witness ==
    /\ lin = <<123, 34, 116, 34, 58, 34, 83, 116, 114, 34, 44, 34, 99, 34, 58,
               34, 97, 34, 125>>
    /\ Len(ltoks) = 10
    /\ ltoks[10].t = "EOF"
    /\ ltoks[9].t = "}"
    /\ lsc.off >= 2 * BufCap

(***************************************************************************)
(* Meta, the metadata map (types.go): an ordered slice of entries with      *)
(* Get and Set.  A value is "x" or "y"; "nil" is the nil MetaValue.         *)
(***************************************************************************)
MetaKeys == {"a", "b", "c"}
MetaValues == {"x", "y"}
MaxEntries == 2
MaxCalls == 4

MetaMapEntry(k, v) == [Key |-> k, Value |-> v]

RECURSIVE getFrom(_, _, _)
\* the loop of Get from entry i on
getFrom(m, i, key) ==
    IF i > Len(m) THEN "nil"
    ELSE IF m[i].Key = key THEN m[i].Value
    ELSE getFrom(m, i + 1, key)
\* m.Get(key)
Get(m, key) == getFrom(m, 1, key)

\* *m = append((*m)[:i], (*m)[i+1:]...)
removeAt(m, i) == SubSeq(m, 1, i - 1) \o SubSeq(m, i + 1, Len(m))

RECURSIVE setFrom(_, _, _, _)
\* the loop of Set from entry i on, and what follows the loop
setFromAppending(m, i, key, value) ==
    IF value # "nil" THEN Append(m, MetaMapEntry(key, value)) ELSE m
setFrom(m, i, key, value) ==
    IF i > Len(m)
    THEN IF value # "nil" THEN Append(m, MetaMapEntry(key, value)) ELSE m
    ELSE IF m[i].Key = key
    THEN IF value = "nil" THEN removeAt(m, i)
         ELSE [m EXCEPT ![i].Value = value]
    ELSE setFrom(m, i + 1, key, value)
\* m.Set(key, value)
Set(m, key, value) == setFrom(m, 1, key, value)

KeysOf(m) == [i \in 1..Len(m) |-> m[i].Key]
UniqueKeys(m) == \A i, j \in 1..Len(m) : m[i].Key = m[j].Key => i = j

\* the maps a document starts with: up to MaxEntries entries, no key twice
StartMaps ==
    {m \in UNION {[1..n -> [Key : MetaKeys, Value : MetaValues]] : n \in 0..MaxEntries} :
        UniqueKeys(m)}

InitMeta ==
    /\ mm \in StartMaps
    /\ mset = [k \in MetaKeys |-> Get(mm, k)]
    /\ mop = [op |-> "none", key |-> "", value |-> "nil", before |-> <<>>]
    /\ mn = 0
    /\ tc = [kind |-> "none"]
    /\ input = <<>>
    /\ cpc = "idle"
    /\ dres = [st |-> "none", v |-> <<>>]
    /\ output = <<>>
    /\ wdoc = 0
    /\ wfun = <<>>
    /\ wpc = "idle"
    /\ wret = <<>>
    /\ mt = <<>>
    /\ mret = "none"
    /\ sbuf = <<>>
    /\ stok = [t |-> "none", s |-> <<>>]
    /\ lin = <<>>
    /\ lsc = <<>>
    /\ ltoks = <<>>
    /\ lpeek = <<>>
    /\ aheap = <<>>
    /\ arecv = <<>>
    /\ aview = <<>>
    /\ aret = <<>>
    /\ rop = <<>>
    /\ rpc = "idle"
    /\ rpipe = <<>>
    /\ rtool = <<>>
    /\ rcopy = <<>>
    /\ rres = <<>>

\* m.Set(key, value), value nil included
DoSet ==
    /\ mn < MaxCalls
    /\ \E k \in MetaKeys, v \in MetaValues \cup {"nil"} :
          /\ mm' = Set(mm, k, v)
          /\ mset' = [mset EXCEPT ![k] = v]
          /\ mop' = [op |-> "set", key |-> k, value |-> v, before |-> mm]
    /\ mn' = mn + 1
    /\ UNCHANGED <<tc, input, cpc, dres, output, wdoc, wfun, wpc, wret, mt,
                   mret, sbuf, stok, lin, lsc, ltoks, lpeek, aheap, arecv,
                   aview, aret, rop, rpc, rpipe, rtool, rcopy, rres>>

\* v := m.Get(key)
DoGet ==
    /\ mn < MaxCalls
    /\ \E k \in MetaKeys :
          mop' = [op |-> "get", key |-> k, value |-> Get(mm, k), before |-> mm]
    /\ mn' = mn + 1
    /\ UNCHANGED <<tc, input, cpc, dres, output, wdoc, wfun, wpc, wret, mt,
                   mret, sbuf, stok, lin, lsc, ltoks, lpeek, mm, mset, aheap,
                   arecv, aview, aret, rop, rpc, rpipe, rtool, rcopy, rres>>

NextMeta == DoSet \/ DoGet

SpecMeta == InitMeta /\ [][NextMeta]_vars

\* m without the entries of key k, the others in their order
Without(m, k) == SelectSeq(m, LAMBDA e : e.Key # k)

\* C23: starting from a map with unique keys, after any sequence of Set calls
\* the keys are still unique; Get(k) returns the value most recently set for
\* k, or no value if k was never set or was last set to no value; updating an
\* existing key keeps its position, a new key is appended at the end, and
\* deleting a key keeps the relative order of the others.
C23_MetaMap ==
    /\ UniqueKeys(mm)
    /\ \A k \in MetaKeys : Get(mm, k) = mset[k]
    /\ mop.op = "get" => mop.value = mset[mop.key]
    /\ (mop.op = "set" /\ mop.value = "nil") => mm = Without(mop.before, mop.key)
    /\ (mop.op = "set" /\ mop.value # "nil"
        /\ \E i \in 1..Len(mop.before) : mop.before[i].Key = mop.key)
       => /\ KeysOf(mm) = KeysOf(mop.before)
          /\ \A i \in 1..Len(mm) :
                mm[i].Value = IF mm[i].Key = mop.key THEN mop.value
                              ELSE mop.before[i].Value
    /\ (mop.op = "set" /\ mop.value # "nil"
        /\ \A i \in 1..Len(mop.before) : mop.before[i].Key # mop.key)
       => mm = Append(mop.before, MetaMapEntry(mop.key, mop.value))

\* a key in the middle of three has been deleted, and before that the value
\* of an existing key was replaced
C23_Witness ==
    /\ mop.op = "set"
    /\ mop.value = "nil"
    /\ Len(mop.before) = 3
    /\ mop.before[2].Key = mop.key
    /\ Len(mm) = 2
    /\ \E k \in MetaKeys : mset[k] # "nil" /\ Get(mm, k) = mset[k]

(***************************************************************************)
(* Attr and its With... methods (types.go).  The methods have a value       *)
(* receiver: the struct is copied, the backing arrays of its two slices are *)
(* not.  aheap holds the arrays: "C" and "K" are those of the caller's      *)
(* Classes and KVs (their length is the capacity of the slices), "C2" and   *)
(* "K2" are what a call allocates.  A slice is [arr, len].                  *)
(***************************************************************************)
KV(k, v) == [Key |-> k, Value |-> v]
Slice(arr, len) == [arr |-> arr, len |-> len]
\* the elements of a slice
Elems(h, s) == SubSeq(h[s.arr], 1, s.len)

\* append(s, e): in place when the capacity allows, else into a new array
appendTo(h, s, e, new) ==
    IF s.len < Len(h[s.arr])
    THEN [h |-> [h EXCEPT ![s.arr][s.len + 1] = e], s |-> Slice(s.arr, s.len + 1)]
    ELSE [h |-> [h EXCEPT ![new] = Append(Elems(h, s), e)], s |-> Slice(new, s.len + 1)]

\* append(s[:i], s[i+1:]...), i counted from 1: the elements after i move
\* down by one place in the array of s
cutAt(h, s, i) ==
    [h |-> [h EXCEPT ![s.arr] = SubSeq(@, 1, i - 1) \o SubSeq(@, i + 1, s.len)
                                \o SubSeq(@, s.len, Len(@))],
     s |-> Slice(s.arr, s.len - 1)]

RECURSIVE classFrom(_, _, _)
\* "for i, cl := range a.Classes { if cl == c": the index of the first class
\* equal to c from i on, 0 if there is none
classFrom(classes, i, c) ==
    IF i > Len(classes) THEN 0
    ELSE IF classes[i] = c THEN i
    ELSE classFrom(classes, i + 1, c)

RECURSIVE keyFrom(_, _, _)
\* "for i, kv := range a.KVs { if kv.Key == key": the index of the first
\* pair with the key from i on, 0 if there is none
keyFrom(kvs, i, key) ==
    IF i > Len(kvs) THEN 0
    ELSE IF kvs[i].Key = key THEN i
    ELSE keyFrom(kvs, i + 1, key)

\* a.HasClass(c)
HasClass(h, a, c) == classFrom(Elems(h, a.Classes), 1, c) # 0

Called(f, h, a) == [f |-> f, h |-> h, a |-> a]

\* a.WithClass(c)
WithClass(h, a, c) ==
    IF ~HasClass(h, a, c)
    THEN Called("WithClass", appendTo(h, a.Classes, c, "C2").h,
                [a EXCEPT !.Classes = appendTo(h, a.Classes, c, "C2").s])
    ELSE Called("WithClass", h, a)

\* a.WithoutClass(c)
WithoutClass(h, a, c) ==
    IF classFrom(Elems(h, a.Classes), 1, c) # 0
    THEN Called("WithoutClass",
                cutAt(h, a.Classes, classFrom(Elems(h, a.Classes), 1, c)).h,
                [a EXCEPT !.Classes =
                    cutAt(h, a.Classes, classFrom(Elems(h, a.Classes), 1, c)).s])
    ELSE Called("WithoutClass", h, a)

\* a.WithKV(key, value)
WithKV(h, a, key, value) ==
    IF keyFrom(Elems(h, a.KVs), 1, key) # 0
    THEN Called("WithKV",
                [h EXCEPT ![a.KVs.arr][keyFrom(Elems(h, a.KVs), 1, key)].Value = value],
                a)
    ELSE Called("WithKV", appendTo(h, a.KVs, KV(key, value), "K2").h,
                [a EXCEPT !.KVs = appendTo(h, a.KVs, KV(key, value), "K2").s])

\* a.WithoutKey(key)
WithoutKey(h, a, key) ==
    IF keyFrom(Elems(h, a.KVs), 1, key) # 0
    THEN Called("WithoutKey",
                cutAt(h, a.KVs, keyFrom(Elems(h, a.KVs), 1, key)).h,
                [a EXCEPT !.KVs =
                    cutAt(h, a.KVs, keyFrom(Elems(h, a.KVs), 1, key)).s])
    ELSE Called("WithoutKey", h, a)

RECURSIVE withPairs(_, _, _)
\* the loop of WithKVs over the pairs, from pairs[i] on (i counted from 1);
\* kvs is the copy
withPairs(kvs, pairs, i) ==
    IF i + 1 > Len(pairs) THEN kvs
    ELSE IF keyFrom(kvs, 1, pairs[i]) # 0
    THEN withPairs([kvs EXCEPT ![keyFrom(kvs, 1, pairs[i])].Value = pairs[i + 1]],
                   pairs, i + 2)
    ELSE withPairs(Append(kvs, KV(pairs[i], pairs[i + 1])), pairs, i + 2)

\* a.WithKVs(pairs...)
WithKVs(h, a, pairs) ==
    Called("WithKVs", [h EXCEPT !["K2"] = withPairs(Elems(h, a.KVs), pairs, 1)],
           [a EXCEPT !.KVs = Slice("K2", Len(withPairs(Elems(h, a.KVs), pairs, 1)))])

RECURSIVE withoutKeys(_, _, _, _)
\* the loop of WithoutKeys from keys[i] on: the key is looked up in a.KVs at
\* the indices of kvs, and the entry at the index found is cut out of kvs
withoutKeys(kvs, orig, keys, i) ==
    IF i > Len(keys) THEN kvs
    ELSE IF keyFrom(SubSeq(orig, 1, Len(kvs)), 1, keys[i]) # 0
    THEN withoutKeys(
            SubSeq(kvs, 1, keyFrom(SubSeq(orig, 1, Len(kvs)), 1, keys[i]) - 1)
            \o SubSeq(kvs, keyFrom(SubSeq(orig, 1, Len(kvs)), 1, keys[i]) + 1, Len(kvs)),
            orig, keys, i + 1)
    ELSE withoutKeys(kvs, orig, keys, i + 1)

\* a.WithoutKeys(keys...)
WithoutKeys(h, a, keys) ==
    Called("WithoutKeys",
           [h EXCEPT !["K2"] = withoutKeys(Elems(h, a.KVs), Elems(h, a.KVs), keys, 1)],
           [a EXCEPT !.KVs = Slice("K2", Len(withoutKeys(Elems(h, a.KVs), Elems(h, a.KVs), keys, 1)))])

\* what the caller sees of an Attr
ViewOf(h, a) ==
    [Id |-> a.Id, Classes |-> Elems(h, a.Classes), KVs |-> Elems(h, a.KVs)]

ClassNames == {"x", "y", "z"}
KeyNames == {"k", "l"}
ValueNames == {"1", "2"}
MaxClasses == 2
MaxKVs == 2
MaxSpare == 1

\* the arrays behind a slice of n elements with up to MaxSpare unused places
Arrays(elems, n) ==
    UNION {[1..(n + spare) -> elems] : spare \in 0..MaxSpare}

InitAttr ==
    /\ \E nc \in 0..MaxClasses, nk \in 0..MaxKVs :
          /\ aheap \in [C : Arrays(ClassNames \ {"z"}, nc),
                        K : Arrays([Key : KeyNames, Value : {"1"}], nk),
                        C2 : {<<>>}, K2 : {<<>>}]
          /\ arecv = [Id |-> "id", Classes |-> Slice("C", nc), KVs |-> Slice("K", nk)]
    /\ aview = ViewOf(aheap, arecv)
    /\ aret = [f |-> "none", a |-> arecv]
    /\ tc = [kind |-> "none"]
    /\ input = <<>>
    /\ cpc = "idle"
    /\ dres = [st |-> "none", v |-> <<>>]
    /\ output = <<>>
    /\ wdoc = 0
    /\ wfun = <<>>
    /\ wpc = "idle"
    /\ wret = <<>>
    /\ mt = <<>>
    /\ mret = "none"
    /\ sbuf = <<>>
    /\ stok = [t |-> "none", s |-> <<>>]
    /\ lin = <<>>
    /\ lsc = <<>>
    /\ ltoks = <<>>
    /\ lpeek = <<>>
    /\ mm = <<>>
    /\ mset = <<>>
    /\ mop = <<>>
    /\ mn = 0
    /\ rop = <<>>
    /\ rpc = "idle"
    /\ rpipe = <<>>
    /\ rtool = <<>>
    /\ rcopy = <<>>
    /\ rres = <<>>

\* the call r := arecv.F(...): the arrays after it and the Attr returned
Call(c) ==
    /\ aret.f = "none"
    /\ aheap' = c.h
    /\ aret' = [f |-> c.f, a |-> c.a]
    /\ UNCHANGED <<tc, input, cpc, dres, output, wdoc, wfun, wpc, wret, mt,
                   mret, sbuf, stok, lin, lsc, ltoks, lpeek, mm, mset, mop,
                   mn, arecv, aview, rop, rpc, rpipe, rtool, rcopy, rres>>

DoWithClass == \E c \in ClassNames : Call(WithClass(aheap, arecv, c))
DoWithoutClass == \E c \in ClassNames : Call(WithoutClass(aheap, arecv, c))
DoWithKV ==
    \E k \in KeyNames \cup {"m"}, v \in ValueNames : Call(WithKV(aheap, arecv, k, v))
DoWithoutKey == \E k \in KeyNames \cup {"m"} : Call(WithoutKey(aheap, arecv, k))
DoWithKVs ==
    \E pairs \in {<<>>, <<"k", "2">>, <<"m", "1">>, <<"k", "2", "l">>,
                  <<"m", "1", "k", "2">>, <<"m", "1", "m", "2">>} :
        Call(WithKVs(aheap, arecv, pairs))
DoWithoutKeys ==
    \E keys \in {<<>>, <<"k">>, <<"m">>, <<"k", "l">>, <<"l", "k">>, <<"k", "k">>} :
        Call(WithoutKeys(aheap, arecv, keys))

NextAttr ==
    \/ DoWithClass
    \/ DoWithoutClass
    \/ DoWithKV
    \/ DoWithoutKey
    \/ DoWithKVs
    \/ DoWithoutKeys

SpecAttr == InitAttr /\ [][NextAttr]_vars

\* C24: WithClass, WithoutClass, WithKV, WithoutKey, WithKVs and WithoutKeys
\* each return a copy and leave the receiver unchanged: after the call the
\* original Attr has the same Id, the same class list and the same key-value
\* pairs, element by element, as before the call.
C24_ReceiverUnchanged ==
    aret.f # "none" => ViewOf(aheap, arecv) = aview

\* the methods that copy before they write, and WithClass, which writes
\* only behind the end of the receiver's slice
CopyingMethodsKeepReceiver ==
    aret.f \in {"WithClass", "WithKVs", "WithoutKeys"}
    => ViewOf(aheap, arecv) = aview

(***************************************************************************)
(* LoadFrom and StoreTo (run.go) with the tool they start.  The tool reads  *)
(* its standard input to the end, writes its output and exits.  The two     *)
(* pipes hold a bounded number of bytes: a write to a full pipe and a read  *)
(* from an empty one wait.  Bytes are counted, not told apart: the output   *)
(* is a document of DocLen bytes and rop.trail bytes after it; the parser   *)
(* returns once it has read rop.at of them, with the outcome rop.parse:     *)
(* "ok" (at the end of the document), "error" (ReadFrom returns an error)   *)
(* or "panic" (ReadFrom panics, see expect and errorf).                     *)
(***************************************************************************)
MaxInput == 2
DocLen == 3
MaxTrail == 2
MaxPipe == 2

Runs ==
    {[op |-> op, in |-> n, doc |-> DocLen, trail |-> t, parse |-> p.parse,
      at |-> p.at, capIn |-> ci, capOut |-> co] :
        op \in {"load", "store"}, n \in 0..MaxInput, t \in 0..MaxTrail,
        p \in {[parse |-> "ok", at |-> DocLen]}
              \cup [parse : {"error", "panic"}, at : 1..DocLen],
        ci \in 1..MaxPipe, co \in 1..MaxPipe}

InitRun ==
    /\ rop \in {r \in Runs : r.op = "store" => (r.parse = "ok" /\ r.trail = 0 /\ r.in = 0)}
    /\ rpc = "start"
    /\ rpipe = [sin |-> 0, sinClosed |-> FALSE, sout |-> 0, soutClosed |-> FALSE]
    /\ rtool = [pc |-> "none", written |-> 0]
    /\ rcopy = [pc |-> "none", left |-> rop.in, err |-> FALSE]
    /\ rres = [ret |-> "none", failed |-> {}, parsed |-> 0, sent |-> 0]
    /\ tc = [kind |-> "none"]
    /\ input = <<>>
    /\ cpc = "idle"
    /\ dres = [st |-> "none", v |-> <<>>]
    /\ output = <<>>
    /\ wdoc = 0
    /\ wfun = <<>>
    /\ wpc = "idle"
    /\ wret = <<>>
    /\ mt = <<>>
    /\ mret = "none"
    /\ sbuf = <<>>
    /\ stok = [t |-> "none", s |-> <<>>]
    /\ lin = <<>>
    /\ lsc = <<>>
    /\ ltoks = <<>>
    /\ lpeek = <<>>
    /\ mm = <<>>
    /\ mset = <<>>
    /\ mop = <<>>
    /\ mn = 0
    /\ aheap = <<>>
    /\ arecv = <<>>
    /\ aview = <<>>
    /\ aret = <<>>

\* return nil, err / return err / return nil
Return(value, failure) ==
    /\ rpc' = "returned"
    /\ rres' = [rres EXCEPT !.ret = value, !.failed = @ \cup failure]

\* LoadFrom: ip, err := cmd.StdinPipe(); if err != nil { return nil, err }
LoadStdinPipe ==
    /\ rop.op = "load" /\ rpc = "start"
    /\ \/ Return("err", {"stdinpipe"})
       \/ rpc' = "stdin" /\ UNCHANGED rres
    /\ UNCHANGED <<tc, input, cpc, dres, output, wdoc, wfun, wpc, wret, mt,
                   mret, sbuf, stok, lin, lsc, ltoks, lpeek, mm, mset, mop,
                   mn, aheap, arecv, aview, aret, rop, rpipe, rtool, rcopy>>

\* LoadFrom: op, err := cmd.StdoutPipe(); if err != nil { return nil, err }
LoadStdoutPipe ==
    /\ rop.op = "load" /\ rpc = "stdin"
    /\ \/ Return("err", {"stdoutpipe"})
       \/ rpc' = "stdout" /\ UNCHANGED rres
    /\ UNCHANGED <<tc, input, cpc, dres, output, wdoc, wfun, wpc, wret, mt,
                   mret, sbuf, stok, lin, lsc, ltoks, lpeek, mm, mset, mop,
                   mn, aheap, arecv, aview, aret, rop, rpipe, rtool, rcopy>>

\* LoadFrom: cmd.Start(), then "go func() { ... }()"
LoadStart ==
    /\ rop.op = "load" /\ rpc = "stdout"
    /\ \/ Return("err", {"start"}) /\ UNCHANGED <<rtool, rcopy>>
       \/ /\ rpc' = "parsing"
          /\ rtool' = [rtool EXCEPT !.pc = "reading"]
          /\ rcopy' = [rcopy EXCEPT !.pc = "copying"]
          /\ UNCHANGED rres
    /\ UNCHANGED <<tc, input, cpc, dres, output, wdoc, wfun, wpc, wret, mt,
                   mret, sbuf, stok, lin, lsc, ltoks, lpeek, mm, mset, mop,
                   mn, aheap, arecv, aview, aret, rop, rpipe>>

\* what the parser does once it has read n more bytes
parsed(n) ==
    IF rres.parsed + n < rop.at THEN "parsing"
    ELSE IF rop.parse = "ok" THEN "waiting"
    ELSE IF rop.parse = "error" THEN "draining"
    ELSE "panicked"

\* LoadFrom: p, err := ReadFrom(op): one Read of the scanner from the pipe
LoadParse ==
    /\ rpc = "parsing"
    /\ \E n \in 1..rpipe.sout :
          /\ rpipe' = [rpipe EXCEPT !.sout = @ - n]
          /\ rpc' = parsed(n)
          /\ rres' = [rres EXCEPT !.parsed = @ + n]
    /\ UNCHANGED <<tc, input, cpc, dres, output, wdoc, wfun, wpc, wret, mt,
                   mret, sbuf, stok, lin, lsc, ltoks, lpeek, mm, mset, mop,
                   mn, aheap, arecv, aview, aret, rop, rtool, rcopy>>

\* LoadFrom: _, _ = io.Copy(io.Discard, op), up to the end of the output
LoadDrain ==
    /\ rpc = "draining"
    /\ \/ /\ rpipe.sout > 0
          /\ rpipe' = [rpipe EXCEPT !.sout = 0]
          /\ UNCHANGED rpc
       \/ /\ rpipe.sout = 0 /\ rpipe.soutClosed
          /\ rpc' = "failed"
          /\ UNCHANGED rpipe
    /\ UNCHANGED <<tc, input, cpc, dres, output, wdoc, wfun, wpc, wret, mt,
                   mret, sbuf, stok, lin, lsc, ltoks, lpeek, mm, mset, mop,
                   mn, aheap, arecv, aview, aret, rop, rtool, rcopy, rres>>

\* cmd.Wait() returns when the tool has exited; "failed" is the Wait after
\* an error, whose own result is dropped
Wait ==
    /\ rpc \in {"waiting", "failed"}
    /\ rtool.pc = "exited"
    /\ Return(IF rpc = "failed" THEN "err" ELSE "nil", {})
    /\ UNCHANGED <<tc, input, cpc, dres, output, wdoc, wfun, wpc, wret, mt,
                   mret, sbuf, stok, lin, lsc, ltoks, lpeek, mm, mset, mop,
                   mn, aheap, arecv, aview, aret, rop, rpipe, rtool, rcopy>>

\* the goroutine: io.Copy(ip, r), one byte read from r and written to the
\* pipe; the read fails, or the write fails because the tool is gone
Copy ==
    /\ rcopy.pc = "copying"
    /\ \/ /\ rcopy.left > 0
          /\ rpipe.sin < rop.capIn
          /\ rtool.pc # "exited"
          /\ rpipe' = [rpipe EXCEPT !.sin = @ + 1]
          /\ rcopy' = [rcopy EXCEPT !.left = @ - 1]
          /\ UNCHANGED rres
       \/ /\ rcopy.left > 0
          /\ rcopy' = [rcopy EXCEPT !.pc = "closing", !.err = TRUE]
          /\ rres' = [rres EXCEPT !.failed = @ \cup {"copy"}]
          /\ UNCHANGED rpipe
       \/ /\ rcopy.left = 0
          /\ rcopy' = [rcopy EXCEPT !.pc = "closing"]
          /\ UNCHANGED <<rpipe, rres>>
    /\ UNCHANGED <<tc, input, cpc, dres, output, wdoc, wfun, wpc, wret, mt,
                   mret, sbuf, stok, lin, lsc, ltoks, lpeek, mm, mset, mop,
                   mn, aheap, arecv, aview, aret, rop, rpc, rtool>>

\* the goroutine: _ = ip.Close()
CopyClose ==
    /\ rcopy.pc = "closing"
    /\ rcopy' = [rcopy EXCEPT !.pc = "sending"]
    /\ rpipe' = [rpipe EXCEPT !.sinClosed = TRUE]
    /\ UNCHANGED <<tc, input, cpc, dres, output, wdoc, wfun, wpc, wret, mt,
                   mret, sbuf, stok, lin, lsc, ltoks, lpeek, mm, mset, mop,
                   mn, aheap, arecv, aview, aret, rop, rpc, rtool, rres>>

\* the goroutine: readErr <- err; the channel holds one value and nobody
\* receives from it
CopySend ==
    /\ rcopy.pc = "sending"
    /\ rres.sent = 0
    /\ rcopy' = [rcopy EXCEPT !.pc = "done"]
    /\ rres' = [rres EXCEPT !.sent = 1]
    /\ UNCHANGED <<tc, input, cpc, dres, output, wdoc, wfun, wpc, wret, mt,
                   mret, sbuf, stok, lin, lsc, ltoks, lpeek, mm, mset, mop,
                   mn, aheap, arecv, aview, aret, rop, rpc, rpipe, rtool>>

\* the tool reads its input up to the end
ToolRead ==
    /\ rtool.pc = "reading"
    /\ \/ /\ rpipe.sin > 0
          /\ rpipe' = [rpipe EXCEPT !.sin = @ - 1]
          /\ UNCHANGED rtool
       \/ /\ rpipe.sin = 0 /\ rpipe.sinClosed
          /\ rtool' = [rtool EXCEPT !.pc = "writing"]
          /\ UNCHANGED rpipe
    /\ UNCHANGED <<tc, input, cpc, dres, output, wdoc, wfun, wpc, wret, mt,
                   mret, sbuf, stok, lin, lsc, ltoks, lpeek, mm, mset, mop,
                   mn, aheap, arecv, aview, aret, rop, rpc, rcopy, rres>>

\* the tool writes a byte of its output: into the pipe for LoadFrom, to the
\* writer of the caller for StoreTo
ToolWrite ==
    /\ rtool.pc = "writing"
    /\ rtool.written < rop.doc + rop.trail
    /\ rop.op = "load" => rpipe.sout < rop.capOut
    /\ rpipe' = [rpipe EXCEPT !.sout = IF rop.op = "load" THEN @ + 1 ELSE @]
    /\ rtool' = [rtool EXCEPT !.written = @ + 1]
    /\ UNCHANGED <<tc, input, cpc, dres, output, wdoc, wfun, wpc, wret, mt,
                   mret, sbuf, stok, lin, lsc, ltoks, lpeek, mm, mset, mop,
                   mn, aheap, arecv, aview, aret, rop, rpc, rcopy, rres>>

\* the tool exits: its ends of the pipes are closed
ToolExit ==
    /\ rtool.pc = "writing"
    /\ rtool.written = rop.doc + rop.trail
    /\ rtool' = [rtool EXCEPT !.pc = "exited"]
    /\ rpipe' = [rpipe EXCEPT !.soutClosed = TRUE]
    /\ UNCHANGED <<tc, input, cpc, dres, output, wdoc, wfun, wpc, wret, mt,
                   mret, sbuf, stok, lin, lsc, ltoks, lpeek, mm, mset, mop,
                   mn, aheap, arecv, aview, aret, rop, rpc, rcopy, rres>>

\* StoreTo: ip, err := cmd.StdinPipe(); if err != nil { return nil }
StoreStdinPipe ==
    /\ rop.op = "store" /\ rpc = "start"
    /\ \/ Return("nil", {"stdinpipe"})
       \/ rpc' = "stdin" /\ UNCHANGED rres
    /\ UNCHANGED <<tc, input, cpc, dres, output, wdoc, wfun, wpc, wret, mt,
                   mret, sbuf, stok, lin, lsc, ltoks, lpeek, mm, mset, mop,
                   mn, aheap, arecv, aview, aret, rop, rpipe, rtool, rcopy>>

\* StoreTo: cmd.Start()
StoreStart ==
    /\ rop.op = "store" /\ rpc = "stdin"
    /\ \/ Return("err", {"start"}) /\ UNCHANGED rtool
       \/ /\ rpc' = "writing"
          /\ rtool' = [rtool EXCEPT !.pc = "reading"]
          /\ UNCHANGED rres
    /\ UNCHANGED <<tc, input, cpc, dres, output, wdoc, wfun, wpc, wret, mt,
                   mret, sbuf, stok, lin, lsc, ltoks, lpeek, mm, mset, mop,
                   mn, aheap, arecv, aview, aret, rop, rpipe, rcopy>>

\* StoreTo: p.write(ip), one byte of the document; a write that fails is
\* followed by ip.Close(), cmd.Wait() and return err
StoreWrite ==
    /\ rpc = "writing"
    /\ \/ /\ rres.sent < rop.doc
          /\ rpipe.sin < rop.capIn
          /\ rpipe' = [rpipe EXCEPT !.sin = @ + 1]
          /\ rres' = [rres EXCEPT !.sent = @ + 1]
          /\ UNCHANGED rpc
       \/ /\ rres.sent < rop.doc
          /\ rpipe' = [rpipe EXCEPT !.sinClosed = TRUE]
          /\ rres' = [rres EXCEPT !.failed = @ \cup {"write"}]
          /\ rpc' = "failed"
    /\ UNCHANGED <<tc, input, cpc, dres, output, wdoc, wfun, wpc, wret, mt,
                   mret, sbuf, stok, lin, lsc, ltoks, lpeek, mm, mset, mop,
                   mn, aheap, arecv, aview, aret, rop, rtool, rcopy>>

\* StoreTo: ip.Close(), which may fail
StoreClose ==
    /\ rpc = "writing"
    /\ rres.sent = rop.doc
    /\ rpipe' = [rpipe EXCEPT !.sinClosed = TRUE]
    /\ \/ rpc' = "waiting" /\ UNCHANGED rres
       \/ rpc' = "failed" /\ rres' = [rres EXCEPT !.failed = @ \cup {"close"}]
    /\ UNCHANGED <<tc, input, cpc, dres, output, wdoc, wfun, wpc, wret, mt,
                   mret, sbuf, stok, lin, lsc, ltoks, lpeek, mm, mset, mop,
                   mn, aheap, arecv, aview, aret, rop, rtool, rcopy>>

\* the steps of the caller's goroutine, of the copying goroutine, of the tool
Caller ==
    \/ LoadStdinPipe
    \/ LoadStdoutPipe
    \/ LoadStart
    \/ LoadParse
    \/ LoadDrain
    \/ Wait
    \/ StoreStdinPipe
    \/ StoreStart
    \/ StoreWrite
    \/ StoreClose
Copier == Copy \/ CopyClose \/ CopySend
Tool == ToolRead \/ ToolWrite \/ ToolExit

NextRun == Caller \/ Copier \/ Tool

\* every goroutine that can take a step takes one, and so does the tool
SpecRun ==
    /\ InitRun
    /\ [][NextRun]_vars
    /\ WF_vars(Caller)
    /\ WF_vars(Copier)
    /\ WF_vars(Tool)

\* C25: every I/O failure on the load/store path is returned to the caller
\* as a non-nil error: after a failure to create the stdin pipe of the tool,
\* a failure of the copy of the caller's input into the tool, or a failure
\* while the document is written, the call does not report success.
C25_FailuresReturned ==
    (rpc = "returned" /\ rres.failed \cap {"stdinpipe", "copy", "write"} # {})
    => rres.ret = "err"

\* the failures that are returned: every failure of LoadFrom but that of
\* the copy, and every failure of StoreTo but that of StdinPipe
OtherFailuresReturned ==
    (/\ rpc = "returned"
     /\ rres.failed # {}
     /\ ~(rop.op = "load" /\ rres.failed = {"copy"})
     /\ ~(rop.op = "store" /\ rres.failed = {"stdinpipe"}))
    => rres.ret = "err"

\* C30: LoadFrom cannot deadlock on full pipe buffers: for any capacity of
\* the pipes, with a tool that consumes its input, writes its output and
\* exits, the copying goroutine and the parser make progress and LoadFrom
\* eventually returns, also when parsing fails part-way.
C30_LoadFromReturns ==
    (rop.op = "load") ~> (rpc = "returned")

\* LoadFrom returns when ReadFrom returns an error (the rest of the output
\* is drained), and when what follows the document fits into the pipe
LoadFromReturnsDrained ==
    (rop.op = "load" /\ (rop.parse = "error" \/ (rop.parse = "ok" /\ rop.trail <= rop.capOut)))
    ~> (rpc = "returned")

\* StoreTo always returns
StoreToReturns ==
    (rop.op = "store") ~> (rpc = "returned")

=============================================================================
